---- MODULE Spec2Model ----
(***************************************************************************)
(* TruthGuard detection and scoring pipeline.                              *)
(*                                                                         *)
(* The model follows backend/app/services: detect_hallucinations fans out  *)
(* one verify_claim coroutine per extracted claim (asyncio.gather), each   *)
(* coroutine suspends only at its HTTP calls, and once every coroutine is  *)
(* done the rest of detect_hallucinations (citations, consistency,         *)
(* compliance, policies, confidence, status) runs without suspension.      *)
(*                                                                         *)
(* Numbers: a component score s in [0,1] is the integer s * ONE, a         *)
(* confidence of a verification result is in hundredths, and the total     *)
(* confidence c is the integer c * 100 * ONE (weights are percentages).    *)
(* ONE is a multiple of every claim count and citation count the model     *)
(* can produce, so the divisions of the code are exact.                    *)
(***************************************************************************)
EXTENDS Integers, Sequences, FiniteSets, TLC

\* ------------------------------------------------------------------ bounds
MaxClaims == 2
MaxCitations == 1
MaxHist == 3
MaxRules == 1
MaxPolicies == 1
MaxRuns == 3

\* ------------------------------------------------------- small arithmetic
Min(a, b) == IF a < b THEN a ELSE b
Max(a, b) == IF a > b THEN a ELSE b

RECURSIVE Factorial(_)
Factorial(n) == IF n <= 1 THEN 1 ELSE n * Factorial(n - 1)

\* common denominator of the divisions (by claim count, by citation count)
SCALE == Factorial(Max(MaxClaims, MaxCitations))
\* the score 1.0
ONE == 100 * SCALE
\* a score given in hundredths
Score(h) == h * SCALE
\* a total confidence given in hundredths
Conf(h) == h * ONE

RECURSIVE SeqSum(_)
SeqSum(s) == IF s = <<>> THEN 0 ELSE Head(s) + SeqSum(Tail(s))

SeqsUpTo(S, n) == UNION {[1..k -> S] : k \in 0..n}

\* ------------------------------------------------------------------ texts
\* A claim text is written as the characters that tell it from the other
\* texts; "P" is the capital of "p" and " " is white space. The sentences
\* extract_claims keeps have 10 characters or more, so the returns for an empty
\* or too short claim in verify_claim and verify_claim_realtime are not taken.
Lower(ch) == IF ch = "P" THEN "p" ELSE IF ch = "J" THEN "j" ELSE ch

RECURSIVE LStrip(_)
LStrip(s) == IF s # <<>> /\ Head(s) = " " THEN LStrip(Tail(s)) ELSE s

RECURSIVE RStrip(_)
RStrip(s) ==
  IF s # <<>> /\ s[Len(s)] = " " THEN RStrip(SubSeq(s, 1, Len(s) - 1)) ELSE s

\* cache_key = claim.lower().strip()
CacheKey(text) == RStrip(LStrip([k \in 1..Len(text) |-> Lower(text[k])]))

TextPy == <<"p", "y">>
TextPyCap == <<"P", "y">>
TextJs == <<"j", "s">>
Texts == {TextPy, TextPyCap, TextJs}
Keys == {CacheKey(t) : t \in Texts}

\* ----------------------------------------------------- verification dicts
None == "None"
NoRef == <<0, "none">>
NoDict == [status |-> "none"]
NoEntry == [status |-> "none"]

Sources == {"wiki", "ddg", "news"}
Slots == Sources \cup {"ret"}
ObjIds == (1..MaxClaims) \X Slots

\* a result dict of real_time_verification / fact_verification; `also` is the
\* list of "(Also verified by n other source(s))" suffixes appended to details
Dict(status, confidence, source, details, url) ==
  [status |-> status, confidence |-> confidence, source |-> source,
   details |-> details, also |-> <<>>, url |-> url]

\* VerificationResult(status, confidence, source, details): no url field
VerificationResult(d) ==
  [status |-> d.status, confidence |-> d.confidence, source |-> d.source,
   details |-> d.details, also |-> d.also]

\* the dict verify_claim builds on a cache hit
CachedDict(e) ==
  [status |-> e.status, confidence |-> e.confidence, source |-> e.source,
   details |-> e.details, also |-> e.also, url |-> None]

\* ------------------------------------------------- answers of the sources
Verified(c) == [kind |-> "verified", conf |-> c]
Answer(k) == [kind |-> k, conf |-> 0]

\* a variant of WikiOutcome that lets a timeout or network error escape
WikiOutcomeRaising(ans) ==
  CASE ans.kind = "verified" ->
         [raised |-> FALSE, cached |-> TRUE,
          dict |-> Dict("verified", ans.conf, "wikipedia", "Found in Wikipedia", "url")]
    [] ans.kind = "false" ->
         [raised |-> FALSE, cached |-> TRUE,
          dict |-> Dict("false", 90, "wikipedia", "INCORRECT", "url")]
    [] ans.kind = "notfound" ->
         [raised |-> FALSE, cached |-> TRUE,
          dict |-> Dict("unverified", 30, "wikipedia", "Not found in Wikipedia", None)]
    [] OTHER ->
         [raised |-> TRUE, cached |-> FALSE,
          dict |-> Dict("unverified", 30, None, "Error", None)]

\* what verify_via_wikipedia makes of the service's answer
WikiOutcome(ans) ==
  CASE ans.kind = "verified" ->
         [raised |-> FALSE, cached |-> TRUE,
          dict |-> Dict("verified", ans.conf, "wikipedia", "Found in Wikipedia", "url")]
    [] ans.kind = "false" ->
         [raised |-> FALSE, cached |-> TRUE,
          dict |-> Dict("false", 90, "wikipedia", "INCORRECT", "url")]
    [] ans.kind \in {"notfound", "timeout"} ->
         [raised |-> FALSE, cached |-> TRUE,
          dict |-> Dict("unverified", 30, "wikipedia", "Not found in Wikipedia", None)]
    [] OTHER ->
         [raised |-> FALSE, cached |-> FALSE,
          dict |-> Dict("unverified", 30, None, "Error", None)]

\* what verify_via_duckduckgo makes of the service's answer
DdgOutcome(ans) ==
  CASE ans.kind = "verified" ->
         [raised |-> FALSE, cached |-> TRUE,
          dict |-> Dict("verified", ans.conf, "duckduckgo", "abstract", None)]
    [] ans.kind \in {"notfound", "timeout"} ->
         [raised |-> FALSE, cached |-> TRUE,
          dict |-> Dict("unverified", 30, "duckduckgo", "No instant answer available", None)]
    [] OTHER ->
         [raised |-> FALSE, cached |-> FALSE,
          dict |-> Dict("unverified", 30, None, "Error", None)]

\* what verify_via_newsapi makes of the service's answer (a key is configured)
NewsOutcome(ans) ==
  CASE ans.kind = "verified" ->
         [raised |-> FALSE, cached |-> TRUE,
          dict |-> Dict("verified", ans.conf, "newsapi", "Found in news", "url")]
    [] ans.kind = "ratelimit" ->
         [raised |-> FALSE, cached |-> FALSE,
          dict |-> Dict("unverified", 0, None, "NewsAPI rate limit reached", None)]
    [] ans.kind \in {"notfound", "timeout"} ->
         [raised |-> FALSE, cached |-> TRUE,
          dict |-> Dict("unverified", 30, "newsapi", "No relevant news articles found", None)]
    [] OTHER ->
         [raised |-> FALSE, cached |-> FALSE,
          dict |-> Dict("unverified", 30, None, "Error", None)]

\* verify_via_newsapi without NEWSAPI_KEY: no request, nothing cached
NewsNoKeyDict == Dict("unverified", 0, None, "NewsAPI key not configured", None)

\* ------------------------------------------- one verify_claim coroutine
\* m = [fc, vc, heap, tasks]: fact_cache, _verification_cache, the dicts the
\* cache entries and the coroutines' locals refer to, and the coroutines.
\* w = the world: the answers the sources give, whether NEWSAPI_KEY is set.
\* verify_claim_realtime called with use_all_sources=False
UseAllSourcesOff == FALSE
\* verify_claim passes use_all_sources=True
UseAllSources == TRUE

NewTask(text) ==
  [pc |-> "new", text |-> text, wiki |-> NoRef, ddg |-> NoRef, news |-> NoRef,
   ret |-> NoRef, hit |-> FALSE, caught |-> FALSE, queried |-> {}]

KeyOf(m, i) == CacheKey(m.tasks[i].text)

\* max(results, key=confidence): the first of the most confident ones
FirstBest(m, refs) ==
  LET k == CHOOSE k \in 1..Len(refs) :
             /\ \A j \in 1..Len(refs) : m.heap[refs[j]].confidence <= m.heap[refs[k]].confidence
             /\ \A j \in 1..(k - 1) : m.heap[refs[j]].confidence < m.heap[refs[k]].confidence
  IN refs[k]

\* a variant of AlsoVerifiedBoost without the cap
AlsoVerifiedBoostUncapped(d, others) ==
  [d EXCEPT !.confidence = @ + 10, !.also = Append(@, others)]

\* the multi-source boost of verify_claim_realtime, done in place on the dict
AlsoVerifiedBoost(d, others) ==
  [d EXCEPT !.confidence = Min(@ + 10, 95), !.also = Append(@, others)]

\* verify_claim: store a VerificationResult copy in fact_cache, return the dict
ReturnRealtime(m, i, ref) ==
  [m EXCEPT !.fc[KeyOf(m, i)] = VerificationResult(m.heap[ref]),
            !.tasks[i].ret = ref,
            !.tasks[i].pc = "done"]

\* verify_claim: except Exception
CatchVerifyError(m, i) ==
  [m EXCEPT !.heap[<<i, "ret">>] = Dict("unverified", 0, None, "Verification error", None),
            !.tasks[i].ret = <<i, "ret">>,
            !.tasks[i].caught = TRUE,
            !.tasks[i].pc = "done"]

\* verify_claim_realtime: aggregate the collected results
Aggregate(m, i) ==
  LET t == m.tasks[i]
      results == <<t.wiki, t.ddg, t.news>>
      verified == SelectSeq(results, LAMBDA r : m.heap[r].status = "verified")
      unverified == SelectSeq(results, LAMBDA r : m.heap[r].status = "unverified")
  IN IF verified # <<>>
       THEN LET best == FirstBest(m, verified)
                m2 == IF Len(verified) > 1
                        THEN [m EXCEPT !.heap[best] = AlsoVerifiedBoost(@, Len(verified) - 1)]
                        ELSE m
            IN ReturnRealtime(m2, i, best)
       ELSE IF unverified # <<>>
              THEN ReturnRealtime(m, i, FirstBest(m, unverified))
              ELSE ReturnRealtime(
                     [m EXCEPT !.heap[<<i, "ret">>] =
                        Dict("unverified", 30, None, "Could not verify", None)],
                     i, <<i, "ret">>)

\* a verify_via_<src> that got its answer: a new dict, cached unless an error
StoreSource(m, i, src, out) ==
  LET id == <<i, src>>
      m1 == [m EXCEPT !.heap[id] = out.dict, !.tasks[i][src] = id]
  IN IF out.cached THEN [m1 EXCEPT !.vc[<<src, KeyOf(m, i)>>] = id] ELSE m1

AfterNews(m, i) ==
  IF m.heap[m.tasks[i].news].status = "verified" /\ ~UseAllSources
    THEN ReturnRealtime(m, i, m.tasks[i].news)
    ELSE Aggregate(m, i)

\* verify_via_newsapi up to its HTTP request
CallNews(w, m, i) ==
  LET mq == [m EXCEPT !.tasks[i].queried = @ \cup {"news"}]
      hit == mq.vc[<<"news", KeyOf(m, i)>>]
  IN IF ~w.newsKey
       THEN AfterNews([mq EXCEPT !.heap[<<i, "news">>] = NewsNoKeyDict,
                                 !.tasks[i].news = <<i, "news">>], i)
       ELSE IF hit # NoRef
              THEN AfterNews([mq EXCEPT !.tasks[i].news = hit], i)
              ELSE [mq EXCEPT !.tasks[i].pc = "news"]

\* verify_via_newsapi from its HTTP response on
OnNews(w, m, i) ==
  LET out == NewsOutcome(w.news[KeyOf(m, i)])
  IN IF out.raised THEN CatchVerifyError(m, i)
     ELSE AfterNews(StoreSource(m, i, "news", out), i)

AfterDdg(w, m, i) ==
  IF m.heap[m.tasks[i].ddg].status = "verified" /\ ~UseAllSources
    THEN ReturnRealtime(m, i, m.tasks[i].ddg)
    ELSE CallNews(w, m, i)

\* verify_via_duckduckgo up to its HTTP request
CallDdg(w, m, i) ==
  LET mq == [m EXCEPT !.tasks[i].queried = @ \cup {"ddg"}]
      hit == mq.vc[<<"ddg", KeyOf(m, i)>>]
  IN IF hit # NoRef
       THEN AfterDdg(w, [mq EXCEPT !.tasks[i].ddg = hit], i)
       ELSE [mq EXCEPT !.tasks[i].pc = "ddg"]

\* verify_via_duckduckgo from its HTTP response on
OnDdg(w, m, i) ==
  LET out == DdgOutcome(w.ddg[KeyOf(m, i)])
  IN IF out.raised THEN CatchVerifyError(m, i)
     ELSE AfterDdg(w, StoreSource(m, i, "ddg", out), i)

\* verify_claim_realtime after Wikipedia: a false result returns at once
AfterWiki(w, m, i) ==
  LET d == m.heap[m.tasks[i].wiki]
  IN IF d.status = "false" \/ (d.status = "verified" /\ ~UseAllSources)
       THEN ReturnRealtime(m, i, m.tasks[i].wiki)
       ELSE CallDdg(w, m, i)

\* verify_via_wikipedia up to its HTTP request
CallWiki(w, m, i) ==
  LET mq == [m EXCEPT !.tasks[i].queried = @ \cup {"wiki"}]
      hit == mq.vc[<<"wiki", KeyOf(m, i)>>]
  IN IF hit # NoRef
       THEN AfterWiki(w, [mq EXCEPT !.tasks[i].wiki = hit], i)
       ELSE [mq EXCEPT !.tasks[i].pc = "wiki"]

\* verify_via_wikipedia from its HTTP response on
OnWiki(w, m, i) ==
  LET out == WikiOutcome(w.wiki[KeyOf(m, i)])
  IN IF out.raised THEN CatchVerifyError(m, i)
     ELSE AfterWiki(w, StoreSource(m, i, "wiki", out), i)

\* a variant of verify_claim that does not look into fact_cache
VerifyClaimUncached(w, m, i) == CallWiki(w, m, i)

\* verify_claim from its start to its first HTTP request
VerifyClaim(w, m, i) ==
  LET e == m.fc[KeyOf(m, i)]
  IN IF e # NoEntry
       THEN [m EXCEPT !.heap[<<i, "ret">>] = CachedDict(e),
                      !.tasks[i].ret = <<i, "ret">>,
                      !.tasks[i].hit = TRUE,
                      !.tasks[i].pc = "done"]
       ELSE CallWiki(w, m, i)

\* the coroutine's next step, given where it is suspended
Resume(w, m, i) ==
  CASE m.tasks[i].pc = "new" -> VerifyClaim(w, m, i)
    [] m.tasks[i].pc = "wiki" -> OnWiki(w, m, i)
    [] m.tasks[i].pc = "ddg" -> OnDdg(w, m, i)
    [] m.tasks[i].pc = "news" -> OnNews(w, m, i)
    [] OTHER -> m

\* one verification of `text` run alone, from empty caches, to its end
EmptyMemory(tasks) ==
  [fc |-> [k \in Keys |-> NoEntry],
   vc |-> [sk \in Sources \X Keys |-> NoRef],
   heap |-> [o \in ObjIds |-> NoDict],
   tasks |-> tasks]

RECURSIVE RunAlone(_, _)
RunAlone(w, m) ==
  IF m.tasks[1].pc = "done" THEN m ELSE RunAlone(w, Resume(w, m, 1))

SoloResult(w, text) ==
  LET m == RunAlone(w, EmptyMemory(<<NewTask(text)>>))
  IN m.heap[m.tasks[1].ret]

\* ------------------------------------------------ the stages after gather
Severities == {"low", "medium", "high", "critical"}
Statuses == {"approved", "flagged", "blocked"}
\* a variant of RealTypes that forgets citation and hallucination violations
RealTypesStoreOnly == {"compliance", "policy"}
RealTypes == {"compliance", "policy", "citation", "hallucination"}

Violation(type, severity) == [type |-> type, severity |-> severity]

\* extract_claims: [] for an empty or missing response
ExtractClaims(w) == IF w.responseNone THEN <<>> ELSE w.claims

\* detect_hallucinations step 2, after gather: one entry per claim
VerificationEntry(text, d) ==
  [claim_text |-> text, verification_status |-> d.status, confidence |-> d.confidence,
   source |-> d.source, details |-> d.details, also |-> d.also, url |-> d.url]

\* a variant of HallucinationViolations that reports a verified claim instead
HallucinationViolationsOfVerified(vr) ==
  LET hit == SelectSeq(vr, LAMBDA r : r.verification_status = "verified")
  IN [k \in 1..Len(hit) |-> Violation("hallucination", "high")]

\* one hallucination violation for each claim verified as false
HallucinationViolations(vr) ==
  LET false == SelectSeq(vr, LAMBDA r : r.verification_status = "false")
  IN [k \in 1..Len(false) |-> Violation("hallucination", "high")]

\* extract_and_validate_citations; extract_citation_patterns raises on None
ExtractAndValidateCitations(w) ==
  LET valid == SelectSeq(w.urls, LAMBDA u : u)
      fake == SelectSeq(w.urls, LAMBDA u : ~u)
  IN [raised |-> w.responseNone,
      urls |-> w.urls,
      total_citations |-> Len(w.urls) + w.patterns,
      valid_citations |-> Len(valid),
      fake_citations |-> Len(fake)]

\* a variant of CitationViolations with severity medium
CitationViolationsMedium(cit) ==
  IF cit.fake_citations > 0 THEN <<Violation("citation", "medium")>> ELSE <<>>

CitationViolations(cit) ==
  IF cit.fake_citations > 0 THEN <<Violation("citation", "high")>> ELSE <<>>

\* check_historical_consistency without the floor under low scores
CheckHistoricalConsistencyNoFloor(h) ==
  IF h.err THEN 80
  ELSE IF h.n < 1 THEN 90
  ELSE IF h.n < 2 THEN 80
  ELSE h.raw

\* check_historical_consistency, in hundredths; h.raw is what check_consistency
\* computes from the prior responses and the current one
CheckHistoricalConsistency(h) ==
  IF h.err THEN 80
  ELSE IF h.n < 1 THEN 90
  ELSE IF h.n < 2 THEN 80
  ELSE IF h.raw < 20
         THEN (IF h.n < 3 THEN 70 ELSE Max(h.raw, 40))
         ELSE h.raw

\* detect_hallucinations step 4: the score, skipped for a response under 3 words
ConsistencyScore(w) ==
  IF w.short THEN 70 ELSE CheckHistoricalConsistency(w.hist)

ConsistencyViolations(w) ==
  IF ~w.short /\ CheckHistoricalConsistency(w.hist) < 10
    THEN <<Violation("consistency", "low")>> ELSE <<>>

\* check_compliance: the violations of the failing rules, or the System Error
\* violation of its except branch
CheckCompliance(w) ==
  IF w.compErr
    THEN [passed |-> FALSE, violations |-> <<[rule_name |-> "System Error", severity |-> "high"]>>]
    ELSE LET failing == SelectSeq(w.rules, LAMBDA r : r.fails)
         IN [passed |-> failing = <<>>,
             violations |-> [k \in 1..Len(failing) |->
                               [rule_name |-> "rule", severity |-> failing[k].severity]]]

ComplianceViolations(cr) ==
  IF cr.passed THEN <<>>
  ELSE [k \in 1..Len(cr.violations) |-> Violation("compliance", cr.violations[k].severity)]

\* check_policy_match, by the kind of finding
CheckPolicyMatch(kind) ==
  CASE kind = "contradiction" -> [matched |-> FALSE, confidence |-> 80]
    [] kind = "time" -> [matched |-> FALSE, confidence |-> 90]
    [] OTHER -> [matched |-> TRUE, confidence |-> 70]

\* detect_policy_violations; detect_hallucinations logs and drops its exception
DetectPolicyViolations(w) ==
  LET matches == [k \in 1..Len(w.policies) |-> CheckPolicyMatch(w.policies[k])]
      bad == SelectSeq(matches, LAMBDA x : ~x.matched)
  IN IF w.policyErr THEN <<>>
     ELSE [k \in 1..Len(bad) |->
             Violation("policy", IF bad[k].confidence > 80 THEN "high" ELSE "medium")]

\* ------------------------------------------- calculate_detection_confidence
FactWeight == 25
CitationWeight == 15
ConsistencyWeight == 10
ComplianceWeight == 25
ClarityWeight == 20
ClarityScore == 80
DefaultFactScore == 70
UnverifiedCredit == 60

Clamp(x, lo, hi) == Min(Max(x, lo), hi)

SeverityPenalty(sev) ==
  CASE sev = "low" -> 10 [] sev = "medium" -> 30 [] sev = "high" -> 60
    [] sev = "critical" -> 100 [] OTHER -> 30

RECURSIVE MaxPenalty(_)
MaxPenalty(vs) ==
  IF vs = <<>> THEN 0 ELSE Max(SeverityPenalty(Head(vs).severity), MaxPenalty(Tail(vs)))

\* a variant of FactScore without the 0.7 default for an empty result list
FactScoreNoDefault(vr) ==
  IF vr = <<>> THEN 0
  ELSE LET verified == SelectSeq(vr, LAMBDA r : r.verification_status = "verified")
           false_count == Len(SelectSeq(vr, LAMBDA r : r.verification_status = "false"))
           unverified_count == Len(SelectSeq(vr, LAMBDA r : r.verification_status = "unverified"))
           sum == SeqSum([k \in 1..Len(verified) |-> verified[k].confidence])
           num == sum + unverified_count * UnverifiedCredit - false_count * 100
       IN Clamp((num * SCALE) \div Len(vr), 0, ONE)

\* fact_score * ONE; verified_count * avg_verified_confidence is the sum
FactScore(vr) ==
  IF vr = <<>> THEN Score(DefaultFactScore)
  ELSE LET verified == SelectSeq(vr, LAMBDA r : r.verification_status = "verified")
           false_count == Len(SelectSeq(vr, LAMBDA r : r.verification_status = "false"))
           unverified_count == Len(SelectSeq(vr, LAMBDA r : r.verification_status = "unverified"))
           sum == SeqSum([k \in 1..Len(verified) |-> verified[k].confidence])
           num == sum + unverified_count * UnverifiedCredit - false_count * 100
       IN Clamp((num * SCALE) \div Len(vr), 0, ONE)

\* citation_score * ONE: 0.0 unless total_citations > 0
CitationScore(cit) ==
  IF cit.total_citations > 0
    THEN (cit.valid_citations * ONE) \div cit.total_citations
    ELSE 0

\* compliance_score * ONE; cr = NoCompliance stands for None
NoCompliance == [passed |-> TRUE, violations |-> <<>>, none |-> TRUE]
ComplianceScore(cr) ==
  IF cr.passed \/ cr.violations = <<>> THEN ONE
  ELSE ONE - Score(MaxPenalty(cr.violations))

\* a variant of ClampTotal that returns the weighted sum as it is
ClampTotalNone(total) == total

\* total_confidence = min(max(total, 0.0), 1.0)
ClampTotal(total) == Clamp(total, 0, Conf(100))

\* a variant of CalculateDetectionConfidence without the clarity component
CalculateDetectionConfidenceNoClarity(vr, cit, consistency, cr) ==
  ClampTotal(FactWeight * FactScore(vr)
             + CitationWeight * CitationScore(cit)
             + ConsistencyWeight * Score(consistency)
             + ComplianceWeight * ComplianceScore(cr))

\* total_score * 100 * ONE; consistency is given in hundredths
CalculateDetectionConfidence(vr, cit, consistency, cr) ==
  ClampTotal(FactWeight * FactScore(vr)
             + CitationWeight * CitationScore(cit)
             + ConsistencyWeight * Score(consistency)
             + ComplianceWeight * ComplianceScore(cr)
             + ClarityWeight * Score(ClarityScore))

\* ------------------------------------------------------- status decision
Has(vs, P(_)) == \E k \in 1..Len(vs) : P(vs[k])

\* a variant of the ladder without its first step
DetermineStatusNoCritical(vs, confidence, short) ==
  LET high == Has(vs, LAMBDA v : v.severity = "high")
      real == Has(vs, LAMBDA v : v.type \in RealTypes)
  IN IF high /\ real THEN "blocked"
     ELSE IF real THEN "flagged"
     ELSE IF short
            THEN (IF confidence < Conf(30) THEN "flagged" ELSE "approved")
     ELSE IF confidence < Conf(50) THEN "flagged"
     ELSE "approved"

\* a variant of the ladder that looks at the word count before the violations
DetermineStatusShortFirst(vs, confidence, short) ==
  LET critical == Has(vs, LAMBDA v : v.severity = "critical")
      high == Has(vs, LAMBDA v : v.severity = "high")
      real == Has(vs, LAMBDA v : v.type \in RealTypes)
  IN IF critical THEN "blocked"
     ELSE IF short
            THEN (IF real THEN "blocked"
                  ELSE IF confidence < Conf(30) THEN "flagged" ELSE "approved")
     ELSE IF high /\ real THEN "blocked"
     ELSE IF real THEN "flagged"
     ELSE IF confidence < Conf(50) THEN "flagged"
     ELSE "approved"

\* detect_hallucinations step 8
\* the status ladder without the step for consistency issues alone
DetermineStatusNoLeniency(vs, confidence, short) ==
  LET critical == Has(vs, LAMBDA v : v.severity = "critical")
      high == Has(vs, LAMBDA v : v.severity = "high")
      real == Has(vs, LAMBDA v : v.type \in RealTypes)
  IN IF critical THEN "blocked"
     ELSE IF high /\ real THEN "blocked"
     ELSE IF real THEN "flagged"
     ELSE IF short
            THEN (IF confidence < Conf(30) THEN "flagged" ELSE "approved")
     ELSE IF confidence < Conf(50) THEN "flagged"
     ELSE "approved"

DetermineStatus(vs, confidence, short) ==
  LET critical == Has(vs, LAMBDA v : v.severity = "critical")
      high == Has(vs, LAMBDA v : v.severity = "high")
      real == Has(vs, LAMBDA v : v.type \in RealTypes)
      consistency == SelectSeq(vs, LAMBDA v : v.type = "consistency")
      only_consistency == Len(vs) = Len(consistency) /\ Len(consistency) > 0
  IN IF critical THEN "blocked"
     ELSE IF high /\ real THEN "blocked"
     ELSE IF real THEN "flagged"
     ELSE IF only_consistency
            THEN (IF confidence < Conf(30) /\ Len(consistency) > 1
                    THEN "flagged" ELSE "approved")
     ELSE IF short
            THEN (IF real THEN "blocked"
                  ELSE IF confidence < Conf(30) THEN "flagged" ELSE "approved")
     ELSE IF confidence < Conf(30) /\ real THEN "blocked"
     ELSE IF confidence < Conf(40) THEN "flagged"
     ELSE IF confidence < Conf(50) THEN "flagged"
     ELSE "approved"

\* the dict of the orchestrator's except branch
ErrorResult ==
  [status |-> "flagged", confidence_score |-> Conf(50),
   violations |-> <<Violation("error", "medium")>>,
   verification_results |-> <<>>, citations |-> <<>>, claims |-> <<>>,
   path |-> "error"]

\* detect_hallucinations from the end of gather to its return
DetectAfterGather(w, claims, dicts) ==
  LET vr == [k \in 1..Len(claims) |-> VerificationEntry(claims[k], dicts[k])]
      cit == ExtractAndValidateCitations(w)
      cr == CheckCompliance(w)
      vs == HallucinationViolations(vr) \o CitationViolations(cit)
              \o ConsistencyViolations(w) \o ComplianceViolations(cr)
              \o DetectPolicyViolations(w)
      confidence == CalculateDetectionConfidence(vr, cit, ConsistencyScore(w), cr)
  IN IF cit.raised THEN ErrorResult
     ELSE [status |-> DetermineStatus(vs, confidence, w.short),
           confidence_score |-> confidence,
           violations |-> vs,
           verification_results |-> vr,
           citations |-> cit.urls,
           claims |-> claims,
           path |-> "normal"]

\* ---------------------------------------------------------------- state
VARIABLES
  world,               \* the response's claims, the sources' answers, the client's runs
  inputs,              \* what the stages after gather read: response, stores, URLs
  run,                 \* detection runs started so far
  main,                \* detect_hallucinations: "idle" or awaiting "gather"
  tasks,               \* the verify_claim coroutines of the current run
  fact_cache,          \* fact_verification.fact_cache
  verification_cache,  \* real_time_verification._verification_cache (dict references)
  heap,                \* the result dicts the references point to
  result,              \* what the last completed run returned
  prev,                \* what the run before it returned
  warm,                \* fact_cache held every claim when the current run started
  prevWarm,            \* the same for the run before
  args,                \* arguments of a direct call of calculate_detection_confidence
  total,               \* what that call returned
  call,                \* arguments of a direct call of another function
  ret,                 \* what that call returned
  completed            \* the coroutines of the current run, in the order they finished

vars == <<world, inputs, run, main, tasks, fact_cache, verification_cache, heap,
          result, prev, warm, prevWarm, args, total, call, ret, completed>>

NoResult == [status |-> "none"]
NoInputs == [short |-> "unset"]
NoArgs == [vr |-> "unset"]
NoTotal == 0 - 1
NoCall == [fn |-> "none"]
NoRet == [fn |-> "none"]

Memory == [fc |-> fact_cache, vc |-> verification_cache, heap |-> heap, tasks |-> tasks]

SetMemory(m) ==
  /\ fact_cache' = m.fc
  /\ verification_cache' = m.vc
  /\ heap' = m.heap
  /\ tasks' = m.tasks
  /\ completed' = completed \o SelectSeq([k \in 1..Len(tasks) |-> k],
                                            LAMBDA k : tasks[k].pc # "done" /\ m.tasks[k].pc = "done")

\* ------------------------------------------------------- worlds and inputs
History(n, raw, err) == [n |-> n, raw |-> raw, err |-> err]
NoHistory == History(0, 0, FALSE)
RawScores == {5, 15, 20}
Histories ==
  {History(n, 0, FALSE) : n \in 0..1}
    \cup {History(n, raw, FALSE) : n \in 2..MaxHist, raw \in RawScores}
    \cup {History(0, 0, TRUE)}

Rule(severity, fails) == [severity |-> severity, fails |-> fails]
RuleKinds == {Rule(sev, TRUE) : sev \in Severities} \cup {Rule("medium", FALSE)}
PolicyKinds == {"match", "contradiction", "time"}

StageInput(short, urls, patterns, hist, compErr, rules, policyErr, policies) ==
  [short |-> short, urls |-> urls, patterns |-> patterns, hist |-> hist,
   compErr |-> compErr, rules |-> rules, policyErr |-> policyErr, policies |-> policies]

DefaultInputs == StageInput(FALSE, <<>>, 0, NoHistory, FALSE, <<>>, FALSE, <<>>)

World(responseNone, claims, wiki, ddg, news, newsKey, runs) ==
  [responseNone |-> responseNone, claims |-> claims,
   wiki |-> [k \in Keys |-> wiki], ddg |-> [k \in Keys |-> ddg],
   news |-> [k \in Keys |-> news], newsKey |-> newsKey, runs |-> runs]

\* the fields stage operators read come from `inputs`, the others from `world`
Joined(w, in) ==
  [responseNone |-> w.responseNone, claims |-> w.claims,
   short |-> in.short, urls |-> in.urls, patterns |-> in.patterns, hist |-> in.hist,
   compErr |-> in.compErr, rules |-> in.rules,
   policyErr |-> in.policyErr, policies |-> in.policies]

\* -------------------------------------------------------------- actions
InitWith(w, in) ==
  /\ world = w
  /\ inputs = in
  /\ run = 0
  /\ main = "idle"
  /\ tasks = <<>>
  /\ fact_cache = [k \in Keys |-> NoEntry]
  /\ verification_cache = [sk \in Sources \X Keys |-> NoRef]
  /\ heap = [o \in ObjIds |-> NoDict]
  /\ result = NoResult
  /\ prev = NoResult
  /\ warm = FALSE
  /\ prevWarm = FALSE
  /\ args = NoArgs
  /\ total = NoTotal
  /\ call = NoCall
  /\ ret = NoRet
  /\ completed = <<>>

\* a client calls detect_hallucinations: claims are extracted, gather creates
\* one verify_claim coroutine per claim
StartRun ==
  /\ main = "idle"
  /\ run < world.runs
  /\ LET claims == ExtractClaims(world)
     IN /\ tasks' = [k \in 1..Len(claims) |-> NewTask(claims[k])]
        /\ warm' = \A k \in 1..Len(claims) : fact_cache[CacheKey(claims[k])] # NoEntry
  /\ prevWarm' = warm
  /\ prev' = result
  /\ result' = NoResult
  /\ run' = run + 1
  /\ main' = "gather"
  /\ completed' = <<>>
  /\ UNCHANGED <<world, inputs, fact_cache, verification_cache, heap, args, total, call, ret>>

\* the event loop starts coroutine i (in creation order); it runs up to its
\* first HTTP request, or to its end
TaskStart(i) ==
  /\ main = "gather"
  /\ tasks[i].pc = "new"
  /\ \A j \in 1..(i - 1) : tasks[j].pc # "new"
  /\ SetMemory(VerifyClaim(world, Memory, i))
  /\ UNCHANGED <<world, inputs, run, main, result, prev, warm, prevWarm, args, total, call, ret>>

\* the HTTP response coroutine i waits for arrives; it runs up to its next
\* HTTP request, or to its end
WikiResponse(i) ==
  /\ main = "gather"
  /\ tasks[i].pc = "wiki"
  /\ SetMemory(OnWiki(world, Memory, i))
  /\ UNCHANGED <<world, inputs, run, main, result, prev, warm, prevWarm, args, total, call, ret>>

DdgResponse(i) ==
  /\ main = "gather"
  /\ tasks[i].pc = "ddg"
  /\ SetMemory(OnDdg(world, Memory, i))
  /\ UNCHANGED <<world, inputs, run, main, result, prev, warm, prevWarm, args, total, call, ret>>

NewsResponse(i) ==
  /\ main = "gather"
  /\ tasks[i].pc = "news"
  /\ SetMemory(OnNews(world, Memory, i))
  /\ UNCHANGED <<world, inputs, run, main, result, prev, warm, prevWarm, args, total, call, ret>>

\* a variant of Finish that takes the results in the order the coroutines
\* finished, as asyncio.as_completed would give them
FinishInCompletionOrder(in) ==
  /\ inputs' = in
  /\ result' = DetectAfterGather(Joined(world, in),
                                 [k \in 1..Len(completed) |-> tasks[completed[k]].text],
                                 [k \in 1..Len(completed) |-> heap[tasks[completed[k]].ret]])

\* gather returns once every coroutine is done; the rest of the run follows
\* without suspension and reads the returned dicts as they are by then
Finish(in) ==
  /\ inputs' = in
  /\ result' = DetectAfterGather(Joined(world, in),
                                 [k \in 1..Len(tasks) |-> tasks[k].text],
                                 [k \in 1..Len(tasks) |-> heap[tasks[k].ret]])

\* what the stages read is fixed by the first run that reads it: a response
\* under 3 words skips the history lookup, and a failing store client leaves
\* no rules (policies) to evaluate
FinishRun ==
  /\ main = "gather"
  /\ \A i \in 1..Len(tasks) : tasks[i].pc = "done"
  /\ IF inputs # NoInputs THEN Finish(inputs)
     ELSE IF world.responseNone THEN Finish(DefaultInputs)
     ELSE \E short \in BOOLEAN, compErr \in BOOLEAN, policyErr \in BOOLEAN,
             urls \in SeqsUpTo(BOOLEAN, MaxCitations) :
            \E patterns \in 0..(MaxCitations - Len(urls)),
               hist \in (IF short THEN {NoHistory} ELSE Histories),
               rules \in (IF compErr THEN {<<>>} ELSE SeqsUpTo(RuleKinds, MaxRules)),
               policies \in (IF policyErr THEN {<<>>} ELSE SeqsUpTo(PolicyKinds, MaxPolicies)) :
              Finish(StageInput(short, urls, patterns, hist, compErr, rules,
                                policyErr, policies))
  /\ main' = "idle"
  /\ UNCHANGED <<world, run, tasks, fact_cache, verification_cache, heap,
                 prev, warm, prevWarm, args, total, call, ret, completed>>

Next ==
  \/ StartRun
  \/ \E i \in 1..MaxClaims : i <= Len(tasks) /\ TaskStart(i)
  \/ \E i \in 1..MaxClaims : i <= Len(tasks) /\ WikiResponse(i)
  \/ \E i \in 1..MaxClaims : i <= Len(tasks) /\ DdgResponse(i)
  \/ \E i \in 1..MaxClaims : i <= Len(tasks) /\ NewsResponse(i)
  \/ FinishRun

\* ----------------------------------------------------- specifications
\* Spec: one run over every combination of stage inputs, for a response with
\* no claim or one claim
PipelineWikiAnswers == {Verified(70), Answer("false"), Answer("notfound")}
PipelineClaims == {<<TextPy>>}
PipelineWorlds ==
  {World(FALSE, claims, a, Answer("notfound"), Answer("notfound"), TRUE, 1) :
     claims \in PipelineClaims, a \in PipelineWikiAnswers}
    \cup {World(none, <<>>, Answer("notfound"), Answer("notfound"), Answer("notfound"), TRUE, 1) :
            none \in BOOLEAN}

Init == \E w \in PipelineWorlds : InitWith(w, NoInputs)
Spec == Init /\ [][Next]_vars

\* SpecVerify: one run of a response with 1..MaxClaims claims, over every
\* combination of answers of the three sources; the texts' names are
\* interchangeable, so the first claim is TextPy
WikiAnswers ==
  {Verified(70), Verified(90), Answer("false"), Answer("notfound"),
   Answer("timeout"), Answer("neterr")}
\* (a source that finds nothing is Wikipedia here: the other two functions
\* treat it as they treat a timeout)
DdgAnswers == {Verified(80), Answer("timeout"), Answer("neterr")}
NewsAnswers == {Verified(60), Answer("timeout")}
ClaimLists == {c \in SeqsUpTo(Texts, MaxClaims) : c # <<>> /\ c[1] = TextPy}
VerifyWorlds ==
  {World(FALSE, claims, a, b, c, key, 1) :
     claims \in ClaimLists,
     a \in WikiAnswers, b \in DdgAnswers, c \in NewsAnswers, key \in BOOLEAN}

InitVerify ==
  \E w \in VerifyWorlds :
    /\ (~w.newsKey => w.news = [k \in Keys |-> Answer("timeout")])
    /\ InitWith(w, DefaultInputs)
SpecVerify == InitVerify /\ [][Next]_vars

\* SpecRerun: the same request sent MaxRuns times
BusyInputs ==
  StageInput(FALSE, <<FALSE>>, 0, History(1, 0, FALSE), FALSE,
             <<Rule("low", TRUE)>>, FALSE, <<"contradiction">>)
RerunWorlds ==
  {World(FALSE, claims, a, b, Verified(60), TRUE, MaxRuns) :
     claims \in ClaimLists,
     a \in {Verified(70), Answer("notfound"), Answer("neterr")},
     b \in {Verified(80), Answer("timeout")}}

InitRerun == \E w \in RerunWorlds, in \in {DefaultInputs, BusyInputs} : InitWith(w, in)
SpecRerun == InitRerun /\ [][Next]_vars

\* SpecConfidence: calculate_detection_confidence called directly, with
\* consistency scores inside and outside [0, 1]
ConsistencyArgs == {0 - 300, 0 - 50, 70, 250, 900}
StatusArgs == {"verified", "false", "unverified"}
ConfidenceArgs == {70, 95}
EntryArgs ==
  {[verification_status |-> st, confidence |-> c] : st \in StatusArgs, c \in ConfidenceArgs}
CitationArgs ==
  {[total_citations |-> t, valid_citations |-> v] : t \in 0..MaxCitations, v \in 0..MaxCitations}
ComplianceArgs ==
  {NoCompliance, [passed |-> TRUE, violations |-> <<>>]}
    \cup {[passed |-> FALSE, violations |-> [k \in 1..Len(sevs) |-> [severity |-> sevs[k]]]] :
            sevs \in SeqsUpTo(Severities \cup {"unknown"}, MaxRules)}

CallConfidence ==
  /\ args = NoArgs
  /\ \E vr \in SeqsUpTo(EntryArgs, MaxClaims), cit \in CitationArgs,
        consistency \in ConsistencyArgs, cr \in ComplianceArgs :
       /\ cit.valid_citations <= cit.total_citations
       /\ args' = [vr |-> vr, cit |-> cit, consistency |-> consistency, cr |-> cr]
       /\ total' = CalculateDetectionConfidence(vr, cit, consistency, cr)
  /\ UNCHANGED <<world, inputs, run, main, tasks, fact_cache, verification_cache, heap,
                 result, prev, warm, prevWarm, call, ret, completed>>

InitConfidence == InitWith(World(FALSE, <<>>, Answer("notfound"), Answer("notfound"),
                                 Answer("notfound"), FALSE, 0), DefaultInputs)
NextConfidence == CallConfidence
SpecConfidence == InitConfidence /\ [][NextConfidence]_vars

\* ------------------------------------------------------------ properties
\* a run has returned
Finished == main = "idle" /\ result # NoResult
\* ... from the end of the try block, not from the except branch
Normal == Finished /\ result.path = "normal"

IsCritical(v) == v.severity = "critical"
IsReal(v) == v.type \in {"compliance", "policy", "citation", "hallucination"}
ViolationTypes == {"policy", "compliance", "consistency", "citation", "hallucination", "error"}

\* C1: a run whose violation list holds a violation of severity critical is
\* blocked, and for the violations and confidence of any run the ladder answers
\* blocked once one critical violation, of any type, is added to the list
C1_CriticalAlwaysBlocks ==
  Normal =>
    /\ Has(result.violations, IsCritical) => result.status = "blocked"
    /\ \A t \in ViolationTypes :
         DetermineStatus(Append(result.violations, Violation(t, "critical")),
                         result.confidence_score, inputs.short) = "blocked"

C1_Witness ==
  /\ Normal
  /\ Has(result.violations, IsCritical)
  /\ ~Has(result.violations, LAMBDA v : v.severity = "high")
  /\ result.status = "blocked"

\* C2: a run whose violation list holds a violation of type compliance, policy,
\* citation or hallucination, of any severity, is flagged or blocked
C2_RealViolationNeverApproved ==
  Normal /\ Has(result.violations, IsReal) => result.status \in {"flagged", "blocked"}

C2_Witness ==
  /\ Normal
  /\ result.violations = <<Violation("citation", "high")>>
  /\ result.confidence_score >= Conf(50)
  /\ result.status = "blocked"

\* the violations in an order of their own: by type, then by severity
SeverityOrder == <<"low", "medium", "high", "critical">>
TypeOrder == <<"policy", "compliance", "consistency", "citation", "hallucination", "error">>
Count(vs, v) == Len(SelectSeq(vs, LAMBDA x : x = v))
RECURSIVE Canonical(_, _, _)
Canonical(vs, t, sv) ==
  IF t > Len(TypeOrder) THEN <<>>
  ELSE IF sv > Len(SeverityOrder) \/ ~Has(vs, LAMBDA x : x.type = TypeOrder[t])
         THEN Canonical(vs, t + 1, 1)
  ELSE LET v == Violation(TypeOrder[t], SeverityOrder[sv])
       IN [k \in 1..Count(vs, v) |-> v] \o Canonical(vs, t, sv + 1)

\* the status as a function of the violations' multiset and the confidence
\* alone: the except branch's status for its error violation, else the ladder's
StatusOf(vs, confidence, b) ==
  IF Has(vs, LAMBDA v : v.type = "error") THEN "flagged"
  ELSE DetermineStatus(Canonical(vs, 1, 1), confidence, b)

\* C4: the status of a run is the one StatusOf gives to the multiset of its
\* violations (taken in an order that does not depend on the run) and its
\* confidence score, whether the response has fewer than 3 words or not; so two
\* runs with the same multiset and the same score have the same status
C4_StatusFromViolationsAndConfidence ==
  Finished =>
    \A b \in BOOLEAN :
      result.status = StatusOf(result.violations, result.confidence_score, b)

C4_Witness ==
  /\ Normal
  /\ inputs.short
  /\ Len(result.violations) >= 2
  /\ Canonical(result.violations, 1, 1) # result.violations
  /\ result.status = "flagged"

\* C5: a run with no claim, no citation and no violation is approved with a
\* confidence of at least 0.5, whatever the consistency step returned
C5_EmptyRunApproved ==
  Normal /\ result.claims = <<>> /\ result.citations = <<>> /\ inputs.patterns = 0
         /\ result.violations = <<>>
    => result.status = "approved" /\ result.confidence_score >= Conf(50)

C5_Witness ==
  /\ Normal /\ result.claims = <<>> /\ result.citations = <<>> /\ inputs.patterns = 0
  /\ result.violations = <<>>
  /\ ~inputs.short /\ inputs.hist.n >= 2 /\ inputs.hist.raw = 20
  /\ result.status = "approved"

\* C7: a run in which the compliance store client, the policy lookup or the
\* reading of the response failed returns flagged, confidence 0.5 and the single
\* violation of type error
C7_StageErrorGivesErrorResult ==
  Finished /\ (world.responseNone \/ inputs.compErr \/ inputs.policyErr)
    => /\ result.status = "flagged"
       /\ result.confidence_score = Conf(50)
       /\ result.violations = <<Violation("error", "medium")>>

\* ------------------------------------------------ properties of SpecVerify
IsFalse(r) == r.verification_status = "false"
IsHallucination(v) == v = Violation("hallucination", "high")

\* C3: a run holds as many violations of type hallucination and severity high
\* as it has verification results with status false, so at least one whenever
\* some claim was verified as false
C3_FalseClaimIsHallucination ==
  Normal =>
    /\ Len(SelectSeq(result.violations, IsHallucination))
         = Len(SelectSeq(result.verification_results, IsFalse))
    /\ Has(result.verification_results, IsFalse) => Has(result.violations, IsHallucination)

C3_Witness ==
  /\ Normal
  /\ Len(result.verification_results) >= 2
  /\ \A k \in 1..Len(result.verification_results) : IsFalse(result.verification_results[k])
  /\ Len(SelectSeq(result.violations, IsHallucination)) = Len(result.verification_results)

Failing(ans) == ans.kind \in {"timeout", "neterr"}
SourceAnswer(src, key) ==
  CASE src = "wiki" -> world.wiki[key] [] src = "ddg" -> world.ddg[key]
    [] OTHER -> world.news[key]
\* the sources verify_claim_realtime calls when Wikipedia answers ans
SourcesAfter(ans) == IF ans.kind = "false" THEN {"wiki"} ELSE Sources

\* C8: in a completed run every coroutine that went to the sources returned a
\* result without passing through verify_claim's except branch, called every
\* source verify_claim_realtime calls for its Wikipedia answer even though some
\* of them timed out or failed, holds an unverified result for each source that
\* timed out or failed, and the run returned a status from its try block
C8_SourceFailureIsUnverified ==
  Finished =>
    /\ result.path = "normal" /\ result.status \in Statuses
    /\ \A i \in 1..Len(tasks) :
         LET t == tasks[i]
             key == CacheKey(t.text)
         IN /\ ~t.caught
            /\ t.ret # NoRef
            /\ heap[t.ret].status \in {"verified", "false", "unverified"}
            /\ ~t.hit => t.queried = SourcesAfter(world.wiki[key])
            /\ \A src \in t.queried :
                 (src # "news" \/ world.newsKey) /\ Failing(SourceAnswer(src, key))
                   => heap[t[src]].status = "unverified"

C8_Witness ==
  /\ Finished
  /\ \E i \in 1..Len(tasks) :
       /\ world.wiki[CacheKey(tasks[i].text)].kind = "timeout"
       /\ world.ddg[CacheKey(tasks[i].text)].kind = "neterr"
       /\ tasks[i].queried = Sources
       /\ heap[tasks[i].wiki].status = "unverified"
       /\ heap[tasks[i].ret].status = "verified"
       /\ heap[tasks[i].ret].source = "newsapi"
  /\ result.status = "approved"

\* C9: in a completed run every coroutine whose claim text another coroutine
\* of the run verified too returned the status and confidence that one
\* verification of that text, run alone from empty caches against the same
\* answers, returns, and fact_cache holds that status and confidence
C9_ConcurrentSameAsAlone ==
  Finished =>
    \A i \in 1..Len(tasks) :
      (\E j \in 1..Len(tasks) : j # i /\ tasks[j].text = tasks[i].text) =>
        LET alone == SoloResult(world, tasks[i].text)
            got == heap[tasks[i].ret]
            entry == fact_cache[CacheKey(tasks[i].text)]
        IN /\ got.status = alone.status /\ got.confidence = alone.confidence
           /\ entry.status = alone.status /\ entry.confidence = alone.confidence

\* ------------------------------------------------- properties of SpecRerun
\* C10: when two successive runs both started with every claim in fact_cache,
\* the later one returns the status, confidence score, violations, verification
\* results, citations and claims of the earlier one
C10_WarmRerunIdentical ==
  Finished /\ warm /\ prevWarm /\ prev # NoResult =>
    /\ result.status = prev.status
    /\ result.confidence_score = prev.confidence_score
    /\ result.violations = prev.violations
    /\ result.verification_results = prev.verification_results
    /\ result.citations = prev.citations
    /\ result.claims = prev.claims

C10_Witness ==
  /\ Finished /\ warm /\ prevWarm /\ prev # NoResult
  /\ Len(result.claims) >= 2
  /\ \E k \in 1..Len(result.verification_results) :
       /\ result.verification_results[k].verification_status = "verified"
       /\ result.verification_results[k].also # <<>>
  /\ Len(result.violations) >= 2
  /\ result = prev

\* -------------------------------------------- properties of SpecConfidence
\* C6: the total calculate_detection_confidence returns lies between 0 and 1
\* for every argument, a consistency score below 0 or above 1 included
C6_TotalWithinUnitInterval ==
  args # NoArgs => 0 <= total /\ total <= Conf(100)

C6_Witness ==
  /\ args # NoArgs
  /\ args.consistency > 100
  /\ args.vr # <<>> /\ args.cit.total_citations > 0
  /\ total = Conf(100)

\* ------------------------------------------------------------ rule_engine
\* A response, a keyword or a policy text is written as the sequence of its
\* words and signs, "guaranteed" as "guarantee" followed by "d"; s1 in s2 is
\* then: s1 is a run of consecutive elements of s2.
LowerWord(wd) ==
  CASE wd = "Yes" -> "yes" [] wd = "You" -> "you" [] wd = "This" -> "this"
    [] wd = "Guarantee" -> "guarantee" [] wd = "Hours" -> "hours"
    [] wd = "Refund" -> "refund" [] wd = "Policy" -> "policy"
    [] wd = "Your" -> "your" [] wd = "Response" -> "response" [] wd = "SEC" -> "sec"
    [] wd = "No" -> "no" [] wd = "Financial" -> "financial" [] wd = "Note" -> "note"
    [] wd = "Please" -> "please" [] wd = "Past" -> "past" [] wd = "Claim" -> "claim"
    [] wd = "We" -> "we" [] wd = "Some" -> "some" [] wd = "Contains" -> "contains"
    [] wd = "Context" -> "context" [] wd = "Could" -> "could"
    [] wd = "Disclosure" -> "disclosure" [] OTHER -> wd
LowerText(t) == [k \in 1..Len(t) |-> LowerWord(t[k])]
Contains(hay, needle) ==
  \E i \in 0..(Len(hay) - Len(needle)) : \A k \in 1..Len(needle) : hay[i + k] = needle[k]

CryptoResponse ==
  <<"Yes", ",", "cryptocurrency", "always", "goes", "up", ".", "You", "should", "invest",
    "all", "your", "savings", "for", "maximum", "returns", ".">>
GuaranteedResponse == <<"This", "investment", "is", "guarantee", "d", "to", "profit">>
RiskResponse == <<"This", "fund", "has", "risk", ",", "no", "Guarantee">>
PlainResponse == <<"Your", "flight", "departs", "at", "noon">>
Responses == {CryptoResponse, GuaranteedResponse, RiskResponse, PlainResponse}

\* Rule.__init__ on a row of compliance_rules
RuleDef(name, severity, is_active, match_type, keywords, patterns, required_text, forbidden_text, custom_logic, industry) ==
  [name |-> name, severity |-> severity, is_active |-> is_active, match_type |-> match_type,
   patterns |-> IF keywords # <<>> THEN keywords ELSE patterns,
   required_text |-> required_text, forbidden_text |-> forbidden_text,
   custom_logic |-> custom_logic, industry |-> industry]

\* get_sec_rules: 'SEC - No Financial Guarantees'
SecKeywords ==
  << <<"guarantee">>, <<"guarantee", "d">>, <<"always", "profitable">>,
     <<"risk", "-", "free">>, <<"sure", "thing">>, <<"cannot", "lose">> >>
SecNoGuaranteeRule ==
  RuleDef("SEC - No Financial Guarantees", "critical", TRUE, "keyword_match",
          SecKeywords, <<>>, <<>>, <<>>, FALSE, "finance")

RuleResult(passed, kind, texts) == [passed |-> passed, kind |-> kind, texts |-> texts]

evaluate_keyword_match(rule, response_lower) ==
  LET matched == SelectSeq(rule.patterns, LAMBDA kw : Contains(response_lower, LowerText(kw)))
  IN IF rule.patterns = <<>> THEN RuleResult(TRUE, "No keywords to match", <<>>)
     ELSE IF matched # <<>> THEN RuleResult(FALSE, "prohibited keywords", matched)
     ELSE RuleResult(TRUE, "No prohibited keywords found", <<>>)

\* re.search(pattern, response_lower, re.IGNORECASE), for patterns without
\* regular-expression operators
evaluate_pattern_match(rule, response_lower) ==
  LET matched == SelectSeq(rule.patterns, LAMBDA pt : Contains(response_lower, LowerText(pt)))
  IN IF rule.patterns = <<>> THEN RuleResult(TRUE, "No patterns to match", <<>>)
     ELSE IF matched # <<>> THEN RuleResult(FALSE, "prohibited patterns", matched)
     ELSE RuleResult(TRUE, "No prohibited patterns found", <<>>)

evaluate_custom_rule(rule, response_lower) ==
  IF rule.custom_logic THEN evaluate_keyword_match(rule, response_lower)
  ELSE RuleResult(TRUE, "No custom logic defined", <<>>)

\* a variant of evaluate_rule that looks at the required text first
evaluate_rule_required_first(rule, response) ==
  LET response_lower == LowerText(response)
      missing == SelectSeq(rule.required_text,
                           LAMBDA rq : ~Contains(response_lower, LowerText(rq)))
      found == SelectSeq(rule.forbidden_text,
                         LAMBDA fb : Contains(response_lower, LowerText(fb)))
  IN IF ~rule.is_active THEN RuleResult(TRUE, "Rule is inactive", <<>>)
     ELSE IF missing # <<>> THEN RuleResult(FALSE, "missing required text", missing)
     ELSE IF found # <<>> THEN RuleResult(FALSE, "forbidden text", <<found[1]>>)
     ELSE evaluate_keyword_match(rule, response_lower)

evaluate_rule(rule, response) ==
  LET response_lower == LowerText(response)
      found == SelectSeq(rule.forbidden_text,
                         LAMBDA fb : Contains(response_lower, LowerText(fb)))
      missing == SelectSeq(rule.required_text,
                           LAMBDA rq : ~Contains(response_lower, LowerText(rq)))
  IN IF ~rule.is_active THEN RuleResult(TRUE, "Rule is inactive", <<>>)
     ELSE IF found # <<>> THEN RuleResult(FALSE, "forbidden text", <<found[1]>>)
     ELSE IF missing # <<>> THEN RuleResult(FALSE, "missing required text", missing)
     ELSE CASE rule.match_type = "keyword_match" -> evaluate_keyword_match(rule, response_lower)
            [] rule.match_type = "pattern_match" -> evaluate_pattern_match(rule, response_lower)
            [] rule.match_type = "semantic_match" -> evaluate_keyword_match(rule, response_lower)
            [] rule.match_type = "custom" -> evaluate_custom_rule(rule, response_lower)
            [] OTHER -> RuleResult(TRUE, "Unknown rule type", <<>>)

\* load_applicable_rules, called with industry=None by detect_hallucinations:
\* the rule's organization is this one, or the rule has neither organization
\* nor industry
Orgs == {"this", "other", None}
\* the filter of load_applicable_rules(organization_id, industry) on one row;
\* rule_org is "this" for a rule of the organization of the run
RuleApplies(rule_org, rule_industry, industry) ==
  \/ rule_org = "this"
  \/ industry # None /\ rule_industry = industry
  \/ rule_org = None /\ rule_industry = None
\* check_compliance(ai_response, organization_id, industry=None)
DetectIndustry == None
Applicable(org, rule) == RuleApplies(org, rule.industry, DetectIndustry)

\* detect_hallucinations on a response without claims and URLs, no history and
\* no policy, with this one stored rule
RunWithRule(rule, org, response) ==
  LET res == evaluate_rule(rule, response)
      rules == IF Applicable(org, rule) THEN <<Rule(rule.severity, ~res.passed)>> ELSE <<>>
      in == StageInput(FALSE, <<>>, 0, NoHistory, FALSE, rules, FALSE, <<>>)
      w == World(FALSE, <<>>, Answer("notfound"), Answer("notfound"), Answer("notfound"),
                 FALSE, 1)
  IN DetectAfterGather(Joined(w, in), <<>>, <<>>)

\* SpecRule: evaluate_rule and a run over rules of every shape
ForbiddenLists == {<<>>, << <<"guarantee">> >>, << <<"black", "box">>, <<"Guarantee">> >>}
RequiredLists == {<<>>, << <<"risk">> >>, << <<"risk">>, <<"disclaimer">> >>}
PatternLists == {<<>>, << <<"guarantee", "d">> >>, << <<"invest">>, <<"profit">> >>}
MatchTypes == {"keyword_match", "pattern_match", "semantic_match", "custom", "other"}
RuleDefs ==
  {SecNoGuaranteeRule}
    \cup {RuleDef("rule", sev, act, mt, kws, <<>>, rq, fb, cl, ind) :
            sev \in {"medium", "critical"}, act \in BOOLEAN, mt \in MatchTypes,
            kws \in PatternLists, rq \in RequiredLists, fb \in ForbiddenLists,
            cl \in BOOLEAN, ind \in {None, "finance"}}

CallEvaluateRule ==
  /\ call = NoCall
  /\ \E rule \in RuleDefs, org \in Orgs, response \in Responses :
       /\ call' = [fn |-> "evaluate_rule", rule |-> rule, org |-> org, response |-> response]
       /\ ret' = [fn |-> "evaluate_rule", result |-> evaluate_rule(rule, response),
                  applied |-> Applicable(org, rule),
                  run |-> RunWithRule(rule, org, response)]
  /\ UNCHANGED <<world, inputs, run, main, tasks, fact_cache, verification_cache, heap,
                 result, prev, warm, prevWarm, args, total, completed>>

NextRule == CallEvaluateRule
SpecRule == InitConfidence /\ [][NextRule]_vars

\* ------------------------------------------------------- the status step
\* detect_hallucinations step 8 on its own: the violations the earlier steps
\* can append, the confidence score of step 7 and the length of the response
MaxViolations == 2
StepViolations ==
  {Violation("hallucination", "high"), Violation("citation", "high"),
   Violation("consistency", "low"), Violation("policy", "high"),
   Violation("policy", "medium")}
    \cup {Violation("compliance", sev) : sev \in Severities}
ConfidenceLevels == {Conf(20), Conf(35), Conf(45), Conf(60)}

CallDetermineStatus ==
  /\ call = NoCall
  /\ \E vs \in SeqsUpTo(StepViolations, MaxViolations), confidence \in ConfidenceLevels,
        short \in BOOLEAN :
       /\ call' = [fn |-> "determine_status", violations |-> vs,
                   confidence_score |-> confidence, short |-> short]
       /\ ret' = [fn |-> "determine_status", status |-> DetermineStatus(vs, confidence, short)]
  /\ UNCHANGED <<world, inputs, run, main, tasks, fact_cache, verification_cache, heap,
                 result, prev, warm, prevWarm, args, total, completed>>

NextStatus == CallDetermineStatus
SpecStatus == InitConfidence /\ [][NextStatus]_vars

\* C11: the run of CryptoResponse against the stored SEC no-guarantee rule
\* applies the rule, the rule fails on the response, and the run is blocked
C11_CryptoResponseBlocked ==
  call # NoCall /\ call.fn = "evaluate_rule" /\ call.rule = SecNoGuaranteeRule
                /\ call.response = CryptoResponse
    => ret.applied /\ ~ret.result.passed /\ ret.run.status = "blocked"

\* C15: an active rule fails on a response that contains one of its forbidden
\* texts, with details naming the first such text, whatever its required text,
\* match type and patterns are; the run that applies the rule holds a violation
\* of type compliance with the rule's severity
C15_ForbiddenTextFirst ==
  call # NoCall /\ call.fn = "evaluate_rule" /\ call.rule.is_active
    /\ (\E k \in 1..Len(call.rule.forbidden_text) :
          Contains(LowerText(call.response), LowerText(call.rule.forbidden_text[k])))
    => /\ ~ret.result.passed
       /\ ret.result.kind = "forbidden text"
       /\ Len(ret.result.texts) = 1
       /\ \E k \in 1..Len(call.rule.forbidden_text) :
            /\ ret.result.texts[1] = call.rule.forbidden_text[k]
            /\ Contains(LowerText(call.response), LowerText(call.rule.forbidden_text[k]))
            /\ \A j \in 1..(k - 1) :
                 ~Contains(LowerText(call.response), LowerText(call.rule.forbidden_text[j]))
       /\ ret.applied =>
            Has(ret.run.violations,
                LAMBDA v : v = Violation("compliance", call.rule.severity))

C15_Witness ==
  /\ call # NoCall /\ call.fn = "evaluate_rule" /\ call.rule.is_active
  /\ call.response = GuaranteedResponse
  /\ call.rule.forbidden_text = << <<"guarantee">> >>
  /\ call.rule.required_text # <<>> /\ call.rule.patterns # <<>>
  /\ ret.applied
  /\ ret.result = RuleResult(FALSE, "forbidden text", << <<"guarantee">> >>)
  /\ ret.run.violations = <<Violation("compliance", call.rule.severity)>>

\* ------------------------------------------------------------ clean runs
\* the run loaded no rule and no policy, every URL of the response validated,
\* and no claim was verified as false
CleanRun ==
  /\ Finished /\ Normal
  /\ ~inputs.compErr /\ inputs.rules = <<>> /\ inputs.policies = <<>>
  /\ \A k \in 1..Len(inputs.urls) : inputs.urls[k]
  /\ \A k \in 1..Len(result.verification_results) :
       result.verification_results[k].verification_status # "false"

\* C12: a run with no applicable rule, no policy, no invalid URL and no claim
\* verified as false is approved, whatever its component scores are
C12_CleanRunApproved == CleanRun => result.status = "approved"

\* the lowest scores of such a run: an unverified claim, no citation and a
\* history at odds with the response
C12_Witness ==
  /\ CleanRun /\ result.status = "approved"
  /\ ~inputs.short
  /\ Len(result.verification_results) > 0
  /\ result.verification_results[1].verification_status = "unverified"
  /\ inputs.urls = <<>>
  /\ result.confidence_score < Conf(60)

\* ------------------------------------------------------------ citations
\* validate_url gave is_valid = False for some URL of the response
HasInvalidUrl == Finished /\ \E k \in 1..Len(inputs.urls) : ~inputs.urls[k]

\* C13: a run over a response with a URL that does not validate holds a
\* violation of type citation with severity high and is flagged or blocked
C13_InvalidUrlIsCitationViolation ==
  HasInvalidUrl =>
    /\ Has(result.violations, LAMBDA v : v = Violation("citation", "high"))
    /\ result.status \in {"flagged", "blocked"}

C13_Witness ==
  /\ HasInvalidUrl /\ Normal
  /\ inputs.rules = <<>> /\ inputs.policies = <<>> /\ ~inputs.compErr
  /\ result.violations = <<Violation("citation", "high")>>
  /\ result.status = "blocked"

\* ------------------------------------------------------------ policy_matching
\* numbers are written as their digits
IsNum(wd) == wd \in {"2", "3", "7", "10", "24", "30"}
NumVal(wd) ==
  CASE wd = "2" -> 2 [] wd = "3" -> 3 [] wd = "7" -> 7 [] wd = "10" -> 10
    [] wd = "24" -> 24 [] wd = "30" -> 30 [] OTHER -> 0
\* the words that begin with day, hour, minute or week
UnitOf(wd) ==
  CASE wd \in {"day", "days"} -> "day" [] wd \in {"hour", "hours"} -> "hour"
    [] wd \in {"minute", "minutes"} -> "minute" [] wd \in {"week", "weeks"} -> "week"
    [] OTHER -> None

\* re.findall(r'(\d+)\s*(day|hour|minute|week)', text): the numbers that a unit
\* follows at once, as written, in the order of the text
FindTimes(text) ==
  LET idx == SelectSeq([k \in 1..Len(text) |-> k],
                       LAMBDA k : IsNum(text[k]) /\ k < Len(text)
                                  /\ UnitOf(text[k + 1]) # None)
  IN [j \in 1..Len(idx) |-> [value |-> NumVal(text[idx[j]]), unit |-> UnitOf(text[idx[j] + 1])]]

\* extract_days, in hours (a day is 24 of them): minutes are left out
extract_days(time_tuples) ==
  LET kept == SelectSeq(time_tuples, LAMBDA tm : tm.unit # "minute")
  IN [j \in 1..Len(kept) |->
        CASE kept[j].unit = "day" -> kept[j].value * 24
          [] kept[j].unit = "hour" -> kept[j].value
          [] OTHER -> kept[j].value * 7 * 24]

\* find_contradictions: the opposite pairs, each looked up in both directions
OppositePairs ==
  << << <<"always">>, <<"never">> >>, << <<"guarantee", "d">>, <<"cannot", "guarantee">> >>,
     << <<"immediate">>, <<"within">> >>, << <<"free">>, <<"charge">> >> >>
find_contradictions(policy, response) ==
  LET pl == LowerText(policy)
      rl == LowerText(response)
      hits == SelectSeq(OppositePairs,
                        LAMBDA pr : \/ Contains(pl, pr[1]) /\ Contains(rl, pr[2])
                                    \/ Contains(pl, pr[2]) /\ Contains(rl, pr[1]))
  IN [j \in 1..Len(hits) |->
        IF Contains(pl, hits[j][1]) /\ Contains(rl, hits[j][2])
          THEN [policy |-> hits[j][1], response |-> hits[j][2]]
          ELSE [policy |-> hits[j][2], response |-> hits[j][1]]]

PolicyMatchResult(matched, deviation, confidence) ==
  [matched |-> matched, deviation |-> deviation, confidence |-> confidence]
NoDeviation == [kind |-> "none"]

check_policy_match(response, policy_content, category) ==
  LET contradictions == find_contradictions(policy_content, response)
      policy_times == FindTimes(policy_content)
      response_times == FindTimes(response)
      policy_days == extract_days(policy_times)
      response_days == extract_days(response_times)
  IN IF contradictions # <<>>
       THEN PolicyMatchResult(FALSE, [kind |-> "contradiction", pair |-> contradictions[1]], 80)
     ELSE IF /\ Contains(LowerText(category), <<"refund">>)
             /\ policy_times # <<>> /\ response_times # <<>>
             /\ response_days # <<>> /\ policy_days # <<>>
             /\ response_days[1] < policy_days[1]
       THEN PolicyMatchResult(FALSE, [kind |-> "time", response_hours |-> response_days[1],
                                      policy_hours |-> policy_days[1]], 90)
     ELSE PolicyMatchResult(TRUE, NoDeviation, 70)

\* match_policies and detect_policy_violations for one stored policy
PolicyViolationsOf(response, policy_content, category) ==
  LET match == check_policy_match(response, LowerText(policy_content), category)
  IN IF match.matched THEN <<>>
     ELSE <<[type |-> "policy",
             severity |-> IF match.confidence > 80 THEN "high" ELSE "medium",
             description |-> match.deviation]>>

BusinessDaysPolicy == <<"refunds", "within", "7", "-", "10", "business", "days">>
HoursResponse == <<"refund", "within", "24", "hours">>
PolicyTexts ==
  {BusinessDaysPolicy,
   <<"refunds", "within", "7", "days">>,
   <<"Refund", "within", "7", "days">>,
   <<"refunds", "are", "processed", "in", "2", "weeks">>,
   <<"refunds", "are", "immediate">>,
   <<"refunds", "are", "never", "free">>,
   <<"refunds", "in", "30", "minutes", "or", "2", "days">>}
ResponseTexts ==
  {HoursResponse,
   <<"Refund", "within", "24", "Hours">>,
   <<"refund", "within", "10", "days">>,
   <<"refund", "in", "30", "minutes">>,
   <<"refund", "in", "3", "weeks">>,
   <<"refund", "is", "always", "free">>,
   <<"refund", "in", "7", "days">>,
   <<"your", "refund", "is", "on", "its", "way">>}
Categories == {<<"refund">>, <<"Refund", "Policy">>, <<"baggage">>}

CallCheckPolicyMatch ==
  /\ call = NoCall
  /\ \E response \in ResponseTexts, policy \in PolicyTexts, category \in Categories :
       /\ call' = [fn |-> "check_policy_match", response |-> response,
                   policy_content |-> policy, category |-> category]
       /\ ret' = [fn |-> "check_policy_match",
                  result |-> check_policy_match(response, policy, category),
                  violations |-> PolicyViolationsOf(response, policy, category)]
  /\ UNCHANGED <<world, inputs, run, main, tasks, fact_cache, verification_cache, heap,
                 result, prev, warm, prevWarm, args, total, completed>>

\* a row of company_policies, as match_policies reads it
Policy(content, category) == [policy_content |-> content, category |-> category]
MaxStored == 2
StoredPolicies ==
  SeqsUpTo({Policy(c, cat) : c \in PolicyTexts, cat \in {<<"refund">>, <<"baggage">>}},
           MaxStored)

\* a variant of detect_policy_violations that takes a confidence of 0.8 for high
PolicyViolationsAtLeast(response, policies) ==
  LET matches == [k \in 1..Len(policies) |->
                    check_policy_match(response, LowerText(policies[k].policy_content),
                                       policies[k].category)]
      missed == SelectSeq(matches, LAMBDA mt : ~mt.matched)
  IN [j \in 1..Len(missed) |->
        [type |-> "policy",
         severity |-> IF missed[j].confidence >= 80 THEN "high" ELSE "medium",
         description |-> missed[j].deviation]]

\* match_policies over the stored policies, then detect_policy_violations
detect_policy_violations(response, policies) ==
  LET matches == [k \in 1..Len(policies) |->
                    check_policy_match(response, LowerText(policies[k].policy_content),
                                       policies[k].category)]
      missed == SelectSeq(matches, LAMBDA mt : ~mt.matched)
  IN [j \in 1..Len(missed) |->
        [type |-> "policy",
         severity |-> IF missed[j].confidence > 80 THEN "high" ELSE "medium",
         description |-> missed[j].deviation]]

CallDetectPolicyViolations ==
  /\ call = NoCall
  /\ \E response \in ResponseTexts, policies \in StoredPolicies :
       /\ call' = [fn |-> "detect_policy_violations", response |-> response,
                   policies |-> policies]
       /\ ret' = [fn |-> "detect_policy_violations",
                  violations |-> detect_policy_violations(response, policies)]
  /\ UNCHANGED <<world, inputs, run, main, tasks, fact_cache, verification_cache, heap,
                 result, prev, warm, prevWarm, args, total, completed>>

NextPolicy == CallCheckPolicyMatch \/ CallDetectPolicyViolations
SpecPolicy == InitConfidence /\ [][NextPolicy]_vars

\* ------------------------------------------------------- correction.py
\* str.replace(old, new): every occurrence, left to right, in the case written
RECURSIVE Replace(_, _, _)
Replace(text, old, new) ==
  IF Len(text) < Len(old) THEN text
  ELSE IF SubSeq(text, 1, Len(old)) = old
         THEN new \o Replace(SubSeq(text, Len(old) + 1, Len(text)), old, new)
         ELSE <<Head(text)>> \o Replace(Tail(text), old, new)

\* re.sub(pattern, new, text, flags=re.IGNORECASE) for a pattern of plain words
RECURSIVE ReplaceIgnoreCase(_, _, _)
ReplaceIgnoreCase(text, old, new) ==
  IF Len(text) < Len(old) THEN text
  ELSE IF LowerText(SubSeq(text, 1, Len(old))) = old
         THEN new \o ReplaceIgnoreCase(SubSeq(text, Len(old) + 1, Len(text)), old, new)
         ELSE <<Head(text)>> \o ReplaceIgnoreCase(Tail(text), old, new)

\* ', '.join(texts)
RECURSIVE Join(_)
Join(texts) ==
  IF texts = <<>> THEN <<>>
  ELSE IF Len(texts) = 1 THEN texts[1]
  ELSE texts[1] \o <<",">> \o Join(Tail(texts))

\* the result of one fix; change_description is the list that '; ' joins
Fix(changed, response, change_description) ==
  [changed |-> changed, response |-> response, change_description |-> change_description]
\* response_fixed and changes, the two locals of a fix, and the dict returned
Fixing(response_fixed, changes) == [response |-> response_fixed, changes |-> changes]
FixOf(st) == Fix(st.changes # <<>>, st.response, st.changes)

\* a violation as suggest_correction reads it: a key the dict does not hold
\* reads as the default of violation.get, the empty string
ViolationDict(type, severity, description, rule_name, policy_name, deviation) ==
  [type |-> type, severity |-> severity, description |-> description,
   rule_name |-> rule_name, policy_name |-> policy_name, deviation |-> deviation]

FinancialDisclaimer ==
  <<"\n\n", "Note", ":", "This", "is", "not", "financial", "advice", ".", "Please",
    "consult", "a", "licensed", "financial", "advisor", ".", "Past", "performance",
    "does", "not", "guarantee", "future", "results", ".">>
guarantee_words ==
  << <<"guarantee">>, <<"guarantee", "d">>, <<"always">>, <<"never", "fails">>,
     <<"risk", "-", "free">> >>

\* the loop over guarantee_words, from word k on
RECURSIVE RemoveGuarantees(_, _)
RemoveGuarantees(st, k) ==
  IF k > Len(guarantee_words) THEN st
  ELSE IF Contains(LowerText(st.response), guarantee_words[k])
         THEN RemoveGuarantees(Fixing(Replace(st.response, guarantee_words[k], <<"may">>),
                                      Append(st.changes,
                                             <<"Removed guarantee", guarantee_words[k]>>)),
                               k + 1)
         ELSE RemoveGuarantees(st, k + 1)

\* the disclaimer for a rule named financial or SEC
AddDisclaimer(response, rule_name) ==
  IF /\ Contains(rule_name, <<"financial">>) \/ Contains(rule_name, <<"sec">>)
     /\ ~Contains(LowerText(response), <<"disclaimer">>)
     /\ ~Contains(LowerText(response), <<"risk">>)
    THEN Fixing(response \o FinancialDisclaimer, << <<"Added financial disclaimer">> >>)
    ELSE Fixing(response, <<>>)

fix_compliance_violation(response, violation) ==
  IF Contains(LowerText(violation.description), <<"prohibited", "keywords">>)
    THEN FixOf(RemoveGuarantees(AddDisclaimer(response, LowerText(violation.rule_name)), 1))
    ELSE Fix(FALSE, response, <<>>)

never_patterns ==
  << << <<"we", "never">>, <<"we", "always">> >>,
     << <<"we", "do", "not">>, <<"we", "always">> >>,
     << <<"our", "company", "policy", "dictates", "that", "we", "never">>,
        <<"our", "company", "policy", "dictates", "that", "we", "always">> >>,
     << <<"our", "policy", "never">>, <<"our", "policy", "always">> >> >>
always_patterns ==
  << << <<"we", "always">>, <<"we", "never">> >>,
     << <<"our", "company", "policy", "dictates", "that", "we", "always">>,
        <<"our", "company", "policy", "dictates", "that", "we", "never">> >>,
     << <<"our", "policy", "always">>, <<"our", "policy", "never">> >> >>

\* the loop over the patterns: the first one found is substituted, then break
AlignWith(response, hits, change) ==
  IF hits = <<>> THEN Fixing(response, <<>>)
  ELSE Fixing(ReplaceIgnoreCase(response, hits[1][1], hits[1][2]), << <<change>> >>)
AlignLanguage(response, patterns, change) ==
  AlignWith(response, SelectSeq(patterns, LAMBDA pt : Contains(LowerText(response), pt[1])),
            change)

\* the always/never branches, chosen by the description
AlignStep(response, description) ==
  IF Contains(description, <<"policy", "uses", "'", "always", "'", "but", "response", "uses",
                              "'", "never", "'">>)
    THEN AlignLanguage(response, never_patterns,
                       "Aligned language with policy (changed 'never' to 'always' to match policy)")
  ELSE IF Contains(description, <<"policy", "uses", "'", "never", "'", "but", "response", "uses",
                                   "'", "always", "'">>)
    THEN AlignLanguage(response, always_patterns,
                       "Aligned language with policy (changed 'always' to 'never' to match policy)")
  ELSE Fixing(response, <<>>)

\* the time promise, looked for only if the deviation speaks of days or hours
AdjustTime(st, deviation) ==
  IF /\ Contains(deviation, <<"days">>) \/ Contains(deviation, <<"hours">>)
     /\ \/ Contains(LowerText(st.response), <<"24", "hours">>)
        \/ Contains(LowerText(st.response), <<"immediate">>)
    THEN Fixing(Replace(Replace(st.response, <<"24", "hours">>,
                                <<"7", "-", "10", "business", "days">>),
                        <<"immediate">>, <<"within", "7", "-", "10", "business", "days">>),
                Append(st.changes, <<"Adjusted time promise to match policy">>))
    ELSE st

RemovePromises(st, deviation) ==
  IF Contains(deviation, <<"guarantee">>) \/ Contains(deviation, <<"promise">>)
    THEN Fixing(Replace(Replace(st.response, <<"guarantee", "d">>, <<"typically">>),
                        <<"guarantee">>, <<"typically">>),
                Append(st.changes, <<"Removed guarantee language">>))
    ELSE st

ComplianceNote(policy_name) ==
  <<"\n\n", "[", "Note", ":", "This", "response", "has", "been", "reviewed", "for",
    "compliance", "with">> \o policy_name
    \o <<".", "Please", "ensure", "all", "statements", "align", "with", "company",
         "policies", ".", "]">>

\* the note for a deviation that no fix above dealt with
AddNote(st, deviation, policy_name) ==
  IF st.changes = <<>> /\ deviation # <<>> /\ ~Contains(st.response, ComplianceNote(policy_name))
    THEN Fixing(st.response \o ComplianceNote(policy_name),
                << <<"Added compliance note for">> \o policy_name >>)
    ELSE st

fix_policy_violation(response, violation) ==
  FixOf(AddNote(RemovePromises(AdjustTime(AlignStep(response, LowerText(violation.description)),
                                          LowerText(violation.deviation)),
                               LowerText(violation.deviation)),
                violation.deviation, violation.policy_name))

VerificationNote ==
  <<"\n\n", "Note", ":", "Some", "information", "may", "require", "verification", ".">>

fix_hallucination(response, violation) ==
  LET description == LowerText(violation.description)
  IN IF /\ Contains(description, <<"unverified">>)
           \/ Contains(description, <<"could", "not", "verify">>)
        /\ ~Contains(LowerText(response), <<"unverified">>)
       THEN Fix(TRUE, response \o VerificationNote, << <<"Added verification disclaimer">> >>)
       ELSE Fix(FALSE, response, <<>>)

\* the fix a violation of one of the three groups gets
FixFor(response, violation) ==
  CASE violation.type \in {"compliance", "regulatory"} -> fix_compliance_violation(response, violation)
    [] violation.type = "policy" -> fix_policy_violation(response, violation)
    [] OTHER -> fix_hallucination(response, violation)

\* one of the three loops of suggest_correction, on corrected_response and
\* changes_made
ApplyFix(st, fix) ==
  IF fix.changed THEN Fixing(fix.response, Append(st.changes, fix.change_description)) ELSE st
RECURSIVE ApplyFixes(_, _)
ApplyFixes(st, group) ==
  IF group = <<>> THEN st
  ELSE ApplyFixes(ApplyFix(st, FixFor(st.response, Head(group))), Tail(group))

\* suggest_correction_with_llm: no OPENAI_API_KEY, no usable answer, or a text
LlmOutcomes == {"no key", "no answer", "answer"}

Correction(corrected_response, changes_made, confidence) ==
  [corrected_response |-> corrected_response, changes_made |-> changes_made,
   confidence |-> confidence]

WithLlm(fixed, llm) ==
  IF llm = "answer"
    THEN Correction(<<"Rewritten", "by", "the", "assistant">>,
                    Append(fixed.changes, <<"LLM-enhanced correction applied">>), 80)
  ELSE Correction(fixed.response, fixed.changes, IF fixed.changes # <<>> THEN 80 ELSE 100)

OfTypes(violations, types) == SelectSeq(violations, LAMBDA v : v.type \in types)

\* a variant of suggest_correction that takes the violations as they come
suggest_correction_input_order(original_response, violations, llm) ==
  IF violations = <<>> THEN Correction(original_response, <<>>, 100)
  ELSE WithLlm(ApplyFixes(Fixing(original_response, <<>>),
                          OfTypes(violations, {"compliance", "regulatory", "policy",
                                               "hallucination"})), llm)

suggest_correction(original_response, violations, llm) ==
  IF violations = <<>> THEN Correction(original_response, <<>>, 100)
  ELSE WithLlm(ApplyFixes(ApplyFixes(ApplyFixes(Fixing(original_response, <<>>),
                                                OfTypes(violations, {"compliance", "regulatory"})),
                                     OfTypes(violations, {"policy"})),
                          OfTypes(violations, {"hallucination"})), llm)

\* RuleResult.details of a failed rule
Details(res) ==
  CASE res.kind = "prohibited keywords" ->
         <<"Response", "contains", "prohibited", "keywords", ":">> \o Join(res.texts)
    [] res.kind = "prohibited patterns" ->
         <<"Response", "matches", "prohibited", "patterns", ":">> \o Join(res.texts)
    [] res.kind = "forbidden text" ->
         <<"Response", "contains", "forbidden", "text", ":", "'">> \o res.texts[1] \o <<"'">>
    [] res.kind = "missing required text" ->
         <<"Response", "missing", "required", "text", ":">> \o Join(res.texts)
    [] OTHER -> <<res.kind>>

SecRuleName == "SEC - No Financial Guarantees"
RuleNameText(name) ==
  CASE name = SecRuleName -> <<"SEC", "-", "No", "Financial", "Guarantee", "s">>
    [] name = "Financial Disclosure" -> <<"Financial", "Disclosure">>
    [] OTHER -> <<name>>

\* get_violations, then step 5 of detect_hallucinations: the dict of a failed rule
ComplianceViolationsOf(rule, response) ==
  LET res == evaluate_rule(rule, response)
  IN IF res.passed THEN <<>>
     ELSE <<ViolationDict("compliance", rule.severity, Details(res),
                          RuleNameText(rule.name), <<>>, <<>>)>>

\* the deviation check_policy_match words; the model keeps times in hours, so
\* the two numbers are written at that scale
DeviationText(deviation, policy_name) ==
  CASE deviation.kind = "contradiction" ->
         <<"Response", "contradicts", "policy", "'">> \o policy_name
           \o <<"'", ":", "Policy", "uses", "'">> \o deviation.pair.policy
           \o <<"'", "but", "response", "uses", "'">> \o deviation.pair.response \o <<"'">>
    [] deviation.kind = "time" ->
         <<"Response", "promise", "s", ToString(deviation.response_hours), "days", "but",
           "policy", "allows", ToString(deviation.policy_hours), "days">>
    [] OTHER -> <<>>

\* a row of company_policies with its name
NamedPolicy(policy_name, content, category) ==
  [policy_name |-> policy_name, policy_content |-> content, category |-> category]

\* detect_policy_violations, then step 6 of detect_hallucinations: type,
\* severity, description and policy_name are the keys the dict gets
StepPolicyViolations(response, policy) ==
  LET found == detect_policy_violations(response,
                                        <<Policy(policy.policy_content, policy.category)>>)
  IN [j \in 1..Len(found) |->
        ViolationDict("policy", found[j].severity,
                      DeviationText(found[j].description, policy.policy_name),
                      <<>>, policy.policy_name, <<>>)]

\* step 2 of detect_hallucinations: the dict of a claim verified as false
HallucinationViolation(claim_text, details) ==
  ViolationDict("hallucination", "high",
                <<"Claim", "verified", "as", "incorrect", ":">> \o claim_text \o <<".">>
                  \o details, <<>>, <<>>, <<>>)

\* SpecCorrection: suggest_correction on the violations of a response
CorrectionResponses ==
  {GuaranteedResponse, RiskResponse, HoursResponse,
   <<"We", "never", "refund", "delayed", "flights">>, <<"refund", "is", "always", "free">>}
\* the SEC rule as a keyword rule, a forbidden-text rule and a pattern rule, a
\* rule that requires a disclaimer, and a keyword rule with a plain name
CorrectionRules ==
  {SecNoGuaranteeRule,
   RuleDef(SecRuleName, "critical", TRUE, "keyword_match", <<>>, <<>>, <<>>,
           << <<"guarantee">> >>, FALSE, "finance"),
   RuleDef(SecRuleName, "critical", TRUE, "pattern_match", <<>>, << <<"guarantee", "d">> >>,
           <<>>, <<>>, FALSE, "finance"),
   RuleDef("Financial Disclosure", "high", TRUE, "keyword_match", <<>>, <<>>,
           << <<"disclaimer">> >>, <<>>, FALSE, "finance"),
   RuleDef("rule", "medium", TRUE, "keyword_match", << <<"guarantee">> >>, <<>>, <<>>, <<>>,
           FALSE, None)}
CorrectionPolicies ==
  {NamedPolicy(<<"Refund", "Policy">>, <<"refunds", "within", "7", "days">>, <<"refund">>),
   NamedPolicy(<<"Delay", "Policy">>, <<"we", "always", "refund", "delayed", "flights">>,
               <<"service">>),
   NamedPolicy(<<"Fee", "Policy">>, <<"refunds", "are", "never", "free">>, <<"refund">>)}

Range(sq) == {sq[k] : k \in 1..Len(sq)}
\* the violations a run over the response can hold, and what a caller can add:
\* a policy violation with its text under the key 'deviation' as well, and the
\* two violations of test_financial_services_scenario
ViolationPool(response) ==
  LET compliance == UNION {Range(ComplianceViolationsOf(rule, response)) : rule \in CorrectionRules}
      policy == UNION {Range(StepPolicyViolations(response, pol)) : pol \in CorrectionPolicies}
  IN compliance \cup policy \cup {[v EXCEPT !.deviation = v.description] : v \in policy}
       \cup {HallucinationViolation(<<"refunds", "are", "instant">>,
                                    <<"INCORRECT", ":", "Found", "Wikipedia", "article">>),
             ViolationDict("compliance", "critical",
                           <<"Contains", "prohibited", "guarantee", "language">>,
                           RuleNameText(SecRuleName), <<>>, <<>>),
             ViolationDict("hallucination", "high",
                           <<"Claim", "\"", "always", "goes", "up", "\"", "is", "unverified">>,
                           <<>>, <<>>, <<>>),
             ViolationDict("citation", "high", <<"Found", "1", "invalid", "citations">>,
                           <<>>, <<>>, <<>>)}

MaxFixes == 2
CallSuggestCorrection ==
  /\ call = NoCall
  /\ \E response \in CorrectionResponses, llm \in LlmOutcomes :
       \E violations \in SeqsUpTo(ViolationPool(response), MaxFixes) :
         /\ call' = [fn |-> "suggest_correction", original_response |-> response,
                     violations |-> violations, llm |-> llm]
         /\ ret' = [fn |-> "suggest_correction",
                    correction |-> suggest_correction(response, violations, llm)]
  /\ UNCHANGED <<world, inputs, run, main, tasks, fact_cache, verification_cache, heap,
                 result, prev, warm, prevWarm, args, total, completed>>

NextCorrection == CallSuggestCorrection
SpecCorrection == InitConfidence /\ [][NextCorrection]_vars

\* the time a text states, in hours (-1 for none): its first number with the
\* first unit that follows it, in whatever case and after whatever words
FirstAt(text, k, P(_)) ==
  LET idx == SelectSeq([j \in 1..Len(text) |-> j], LAMBDA j : j >= k /\ P(text[j]))
  IN IF idx = <<>> THEN 0 ELSE idx[1]
StatedHours(text) ==
  LET low == LowerText(text)
      n == FirstAt(low, 1, IsNum)
      u == IF n = 0 THEN 0 ELSE FirstAt(low, n + 1, LAMBDA wd : UnitOf(wd) # None)
  IN IF n = 0 \/ u = 0 THEN -1
     ELSE CASE UnitOf(low[u]) = "day" -> NumVal(low[n]) * 24
            [] UnitOf(low[u]) = "hour" -> NumVal(low[n])
            [] UnitOf(low[u]) = "week" -> NumVal(low[n]) * 7 * 24
            [] OTHER -> -1

\* C14: for a refund policy and a response that both state a time,
\* check_policy_match reports a mismatch when the response promises less time
\* than the policy allows, and where nothing else is found its deviation names
\* both times; so does the violation for BusinessDaysPolicy and HoursResponse
C14_FasterPromiseIsMismatch ==
  /\ call # NoCall /\ call.fn = "check_policy_match"
       /\ Contains(LowerText(call.category), <<"refund">>)
       /\ StatedHours(call.policy_content) >= 0 /\ StatedHours(call.response) >= 0
       /\ StatedHours(call.response) < StatedHours(call.policy_content)
       => /\ ~ret.result.matched
          /\ find_contradictions(call.policy_content, call.response) = <<>>
               => ret.result.deviation =
                    [kind |-> "time", response_hours |-> StatedHours(call.response),
                     policy_hours |-> StatedHours(call.policy_content)]
  /\ call # NoCall /\ call.fn = "check_policy_match"
       /\ call.policy_content = BusinessDaysPolicy /\ call.response = HoursResponse
       /\ Contains(LowerText(call.category), <<"refund">>)
       => /\ Len(ret.violations) = 1
          /\ ret.violations[1].type = "policy"
          /\ ret.violations[1].description.kind = "time"

\* ------------------------------------------------------------ fan-in
\* C16: a run has a result only when every verify_claim coroutine has
\* finished, and its verification_results hold one entry per extracted claim,
\* in claim order, each made of the dict that claim's coroutine returned,
\* whatever the order in which the coroutines finished
C16_ResultsAfterAllInClaimOrder ==
  result # NoResult =>
    /\ \A i \in 1..Len(tasks) : tasks[i].pc = "done"
    /\ Len(completed) = Len(tasks)
    /\ Normal =>
         /\ Len(result.verification_results) = Len(world.claims)
         /\ \A k \in 1..Len(world.claims) :
              result.verification_results[k]
                = VerificationEntry(world.claims[k], heap[tasks[k].ret])
         /\ result.confidence_score
              = CalculateDetectionConfidence(result.verification_results,
                                             ExtractAndValidateCitations(Joined(world, inputs)),
                                             ConsistencyScore(Joined(world, inputs)),
                                             CheckCompliance(Joined(world, inputs)))

\* the second claim's verification finished before the first one's
C16_Witness ==
  /\ Finished /\ Normal
  /\ Len(world.claims) = 2 /\ world.claims[1] # world.claims[2]
  /\ completed = <<2, 1>>
  /\ result.verification_results[1].claim_text = world.claims[1]
  /\ result.verification_results[2].claim_text = world.claims[2]

\* ------------------------------------------------------------ cache hits
\* the first claim of the response with the cache key of claim k: in the first
\* run of the process its coroutine is the one that went to the sources
FirstWithKey(k) ==
  CHOOSE j \in 1..k :
    /\ CacheKey(world.claims[j]) = CacheKey(world.claims[k])
    /\ \A i \in 1..(j - 1) : CacheKey(world.claims[i]) # CacheKey(world.claims[k])

\* C17: in the second run of the process every verify_claim finds its text in
\* fact_cache, calls no source, and returns the status, confidence, source,
\* details and url that the original computation of the first run returned
C17_CacheHitSameAsOriginal ==
  Finished /\ run = 2 =>
    \A k \in 1..Len(tasks) :
      LET orig == prev.verification_results[FirstWithKey(k)]
          got == result.verification_results[k]
      IN /\ tasks[k].hit /\ tasks[k].queried = {}
         /\ got.verification_status = orig.verification_status
         /\ got.confidence = orig.confidence
         /\ got.source = orig.source
         /\ got.details = orig.details /\ got.also = orig.also
         /\ got.url = orig.url

\* ------------------------------------------------------------ source order
\* C18: at every moment a coroutine has called DuckDuckGo only after Wikipedia
\* gave a result that is not false, and the news source only after DuckDuckGo
\* gave its result; a coroutine that finished after going to the sources has
\* called Wikipedia alone and returned Wikipedia's false result if that result
\* is false, and has called all three sources otherwise, a verified result of
\* Wikipedia or DuckDuckGo included
C18_SourcesInOrder ==
  \A i \in 1..Len(tasks) :
    LET t == tasks[i]
    IN /\ t.pc = "wiki" => t.queried = {"wiki"} /\ t.wiki = NoRef
       /\ "ddg" \in t.queried =>
            "wiki" \in t.queried /\ t.wiki # NoRef /\ heap[t.wiki].status # "false"
       /\ t.pc = "ddg" => t.queried = {"wiki", "ddg"} /\ t.ddg = NoRef
       /\ "news" \in t.queried => "ddg" \in t.queried /\ t.ddg # NoRef
       /\ t.pc = "news" => t.queried = Sources /\ t.news = NoRef
       /\ t.pc = "done" /\ ~t.hit =>
            /\ t.wiki # NoRef
            /\ heap[t.wiki].status = "false" =>
                 t.queried = {"wiki"} /\ t.ret = t.wiki /\ heap[t.ret].status = "false"
            /\ heap[t.wiki].status # "false" =>
                 t.queried = Sources /\ t.ddg # NoRef /\ t.news # NoRef

C18_Witness ==
  \E i \in 1..Len(tasks) :
    /\ tasks[i].pc = "done" /\ ~tasks[i].hit
    /\ heap[tasks[i].wiki].status = "verified"
    /\ heap[tasks[i].ddg].status = "verified"
    /\ tasks[i].queried = Sources
    /\ \E j \in 1..Len(tasks) :
         /\ tasks[j].pc = "done" /\ heap[tasks[j].wiki].status = "verified"

\* ------------------------------------------------------------ aggregation
\* coroutine i finishes in this step, having gone to the sources
JustReturned(i) ==
  /\ i <= Len(tasks) /\ i <= Len(tasks')
  /\ tasks[i].pc # "done" /\ tasks'[i].pc = "done"
  /\ ~tasks'[i].hit /\ ~tasks'[i].caught

\* the result source src gave to coroutine i, as it was when the coroutine
\* aggregated: the dict of the verification cache as it stood before this step,
\* or the dict made of the answer that arrived in this step
ResultBefore(i, src) ==
  LET r == tasks'[i][src]
      key == CacheKey(tasks[i].text)
  IN IF heap[r] # NoDict THEN heap[r]
     ELSE CASE src = "wiki" -> WikiOutcome(world.wiki[key]).dict
            [] src = "ddg" -> DdgOutcome(world.ddg[key]).dict
            [] OTHER -> IF world.newsKey THEN NewsOutcome(world.news[key]).dict
                        ELSE NewsNoKeyDict

MaxConfidence(ds) ==
  CHOOSE c \in {ds[k].confidence : k \in 1..Len(ds)} :
    \A k \in 1..Len(ds) : ds[k].confidence <= c

\* C19: a verify_claim_realtime call that Wikipedia did not answer with false
\* returns, if some source verified, a verified result with the highest
\* confidence among the verified source results, raised by 0.1 and capped at
\* 0.95 exactly when two or more sources verified, and otherwise an unverified
\* result with the highest confidence among the unverified source results
C19_AggregatesBestResult ==
  [][\A i \in 1..MaxClaims :
       JustReturned(i) /\ ResultBefore(i, "wiki").status # "false" =>
         LET got == heap'[tasks'[i].ret]
             results == <<ResultBefore(i, "wiki"), ResultBefore(i, "ddg"),
                          ResultBefore(i, "news")>>
             verified == SelectSeq(results, LAMBDA d : d.status = "verified")
             unverified == SelectSeq(results, LAMBDA d : d.status = "unverified")
         IN IF verified # <<>>
              THEN /\ got.status = "verified"
                   /\ got.confidence = IF Len(verified) >= 2
                                         THEN Min(MaxConfidence(verified) + 10, 95)
                                         ELSE MaxConfidence(verified)
              ELSE /\ got.status = "unverified"
                   /\ unverified # <<>>
                   /\ got.confidence = MaxConfidence(unverified)]_vars

\* Wikipedia verified with 0.9 and DuckDuckGo with 0.8: the call returns
\* Wikipedia's result with 0.95
C19_Witness ==
  \E i \in 1..Len(tasks) :
    /\ tasks[i].pc = "done" /\ ~tasks[i].hit
    /\ world.wiki[CacheKey(tasks[i].text)] = Verified(90)
    /\ world.ddg[CacheKey(tasks[i].text)] = Verified(80)
    /\ tasks[i].ret = tasks[i].wiki
    /\ heap[tasks[i].ret].confidence = 95
    /\ heap[tasks[i].ret].also # <<>>

\* ------------------------------------------------------------ repeated calls
\* C20: a dict stored in the verification cache is the same after every step,
\* and a verify_claim_realtime call for a text that an earlier call has
\* verified returns the confidence and details that the earlier call returned
\* (fact_cache holds the copy taken when that call returned)
C20_CachedResultNeverModified ==
  [][/\ \A sk \in Sources \X Keys :
          verification_cache[sk] # NoRef =>
            heap'[verification_cache[sk]] = heap[verification_cache[sk]]
     /\ \A i \in 1..MaxClaims :
          JustReturned(i) /\ fact_cache[CacheKey(tasks[i].text)] # NoEntry =>
            LET got == heap'[tasks'[i].ret]
                earlier == fact_cache[CacheKey(tasks[i].text)]
            IN /\ got.confidence = earlier.confidence
               /\ got.details = earlier.details /\ got.also = earlier.also]_vars

\* ------------------------------------------------------------ rule scope
\* the industry of the organization of the run
OrgIndustry == "finance"

\* C21: in a run for an organization of industry OrgIndustry an active rule is
\* applied if and only if it is a rule of that organization, or of that
\* industry, or of no organization and no industry
C21_RuleScope ==
  call # NoCall /\ call.fn = "evaluate_rule" /\ call.rule.is_active =>
    (ret.applied <=> \/ call.org = "this"
                     \/ call.rule.industry = OrgIndustry
                     \/ call.org = None /\ call.rule.industry = None)

\* ------------------------------------------------------------ match types
\* C22: an active rule of match type semantic_match or custom whose forbidden
\* and required text let the response through gets the result keyword_match
\* gives: it fails if and only if one of its keywords is in the lower-cased
\* response
C22_SemanticAndCustomAreKeyword ==
  call # NoCall /\ call.fn = "evaluate_rule" /\ call.rule.is_active
    /\ call.rule.forbidden_text = <<>> /\ call.rule.required_text = <<>>
    /\ call.rule.match_type \in {"semantic_match", "custom"}
    => /\ ret.result = evaluate_keyword_match(call.rule, LowerText(call.response))
       /\ ~ret.result.passed
            <=> \E k \in 1..Len(call.rule.patterns) :
                  Contains(LowerText(call.response), LowerText(call.rule.patterns[k]))

\* ------------------------------------------------------------ citation score
\* C23: the citation component of a run's confidence score is 1.0 when the
\* response has no citation, and valid citations over total citations otherwise
C23_CitationComponent ==
  Finished /\ Normal =>
    LET w == Joined(world, inputs)
        cit == ExtractAndValidateCitations(w)
        component == IF cit.total_citations = 0 THEN ONE
                     ELSE (cit.valid_citations * ONE) \div cit.total_citations
    IN /\ CitationScore(cit) = component
       /\ result.confidence_score
            = ClampTotal(FactWeight * FactScore(result.verification_results)
                         + CitationWeight * component
                         + ConsistencyWeight * Score(ConsistencyScore(w))
                         + ComplianceWeight * ComplianceScore(CheckCompliance(w))
                         + ClarityWeight * Score(ClarityScore))

\* ------------------------------------------------------------ policy violations
\* what check_policy_match says of policy k of the call
MatchOf(k) ==
  check_policy_match(call.response, LowerText(call.policies[k].policy_content),
                     call.policies[k].category)

\* C24: detect_policy_violations returns one violation for each stored policy
\* that does not match, in the order of the policies, and none for one that
\* matches; its severity is high if the match confidence is above 0.8 and
\* medium otherwise, which makes a contradiction medium and a time promise high
C24_OneViolationPerMismatch ==
  call # NoCall /\ call.fn = "detect_policy_violations" =>
    LET missed == SelectSeq([k \in 1..Len(call.policies) |-> k],
                            LAMBDA k : ~MatchOf(k).matched)
    IN /\ Len(ret.violations) = Len(missed)
       /\ \A j \in 1..Len(missed) :
            LET v == ret.violations[j]
                mt == MatchOf(missed[j])
            IN /\ v.type = "policy"
               /\ v.description = mt.deviation
               /\ v.severity = IF mt.confidence > 80 THEN "high" ELSE "medium"
               /\ mt.deviation.kind = "contradiction" => v.severity = "medium"
               /\ mt.deviation.kind = "time" => v.severity = "high"

\* a contradicted policy and one whose time the response undercuts
C24_Witness ==
  /\ call # NoCall /\ call.fn = "detect_policy_violations"
  /\ Len(call.policies) = 2
  /\ Len(ret.violations) = 2
  /\ ret.violations[1].description.kind = "contradiction"
  /\ ret.violations[1].severity = "medium"
  /\ ret.violations[2].description.kind = "time"
  /\ ret.violations[2].severity = "high"

\* C25: check_historical_consistency returns 0.9 with no prior response and 0.8
\* with exactly one; with two or more it returns the computed pairwise score
\* unchanged, except that a computed score below 0.1 is replaced by a value
\* between 0.4 and 0.7
C25_HistoricalScore ==
  Normal /\ ~inputs.short /\ ~inputs.hist.err =>
    LET h == inputs.hist
        score == ConsistencyScore(Joined(world, inputs))
    IN /\ h.n = 0 => score = 90
       /\ h.n = 1 => score = 80
       /\ h.n >= 2 => IF h.raw < 10 THEN score \in 40..70 ELSE score = h.raw

\* C27: the historical consistency score that reaches the orchestrator is never
\* below 0.2, whatever the prior responses are and whether or not the store
\* fails; so no run holds a violation of type consistency, and the status is
\* the one the other violations give
C27_NoConsistencyViolation ==
  Finished =>
    /\ ConsistencyScore(Joined(world, inputs)) >= 20
    /\ ~Has(result.violations, LAMBDA v : v.type = "consistency")
    /\ Normal =>
         result.status
           = DetermineStatus(SelectSeq(result.violations, LAMBDA v : v.type # "consistency"),
                             result.confidence_score, inputs.short)

\* a run over three prior responses that share almost nothing with this one
C27_Witness ==
  /\ Normal /\ ~inputs.short
  /\ inputs.hist = History(3, 5, FALSE)
  /\ ConsistencyScore(Joined(world, inputs)) = 40
  /\ result.violations = <<>>

\* C26: when every violation is of type consistency the status is never
\* blocked: it is approved, unless the confidence score is below 0.3 and there
\* is more than one consistency violation, and then it is flagged
C26_OnlyConsistencyNeverBlocked ==
  /\ call # NoCall /\ call.fn = "determine_status"
  /\ call.violations # <<>>
  /\ \A k \in 1..Len(call.violations) : call.violations[k].type = "consistency"
  => ret.status = IF call.confidence_score < Conf(30) /\ Len(call.violations) > 1
                    THEN "flagged" ELSE "approved"

\* two consistency violations at confidence 0.2
C26_Witness ==
  /\ call # NoCall /\ call.fn = "determine_status"
  /\ call.violations = <<Violation("consistency", "low"), Violation("consistency", "low")>>
  /\ call.confidence_score = Conf(20)
  /\ ret.status = "flagged"

\* the changes the three fix-up passes made, without the entry of the LLM step
FixChanges ==
  IF call.llm = "answer" /\ call.violations # <<>>
    THEN SubSeq(ret.correction.changes_made, 1, Len(ret.correction.changes_made) - 1)
    ELSE ret.correction.changes_made

\* C28: suggest_correction applies the compliance fixes, then the policy fixes,
\* then the hallucination fixes, whatever the order of the violations in its
\* input, each fix on the text the one before it produced; with no violation
\* it returns the original response and no change
C28_FixesInGroupOrder ==
  call # NoCall /\ call.fn = "suggest_correction" =>
    LET vs == call.violations
        ordered == OfTypes(vs, {"compliance", "regulatory"}) \o OfTypes(vs, {"policy"})
                     \o OfTypes(vs, {"hallucination"})
        expected == ApplyFixes(Fixing(call.original_response, <<>>), ordered)
    IN IF vs = <<>>
         THEN /\ ret.correction.corrected_response = call.original_response
              /\ ret.correction.changes_made = <<>>
         ELSE /\ FixChanges = expected.changes
              /\ call.llm # "answer" => ret.correction.corrected_response = expected.response

\* a hallucination violation handed over before a compliance violation: the
\* disclaimer of the compliance fix comes first in the text and in the changes
C28_Witness ==
  /\ call # NoCall /\ call.fn = "suggest_correction" /\ call.llm = "no key"
  /\ Len(call.violations) = 2
  /\ call.violations[1].type = "hallucination"
  /\ call.violations[2].type = "compliance"
  /\ Len(ret.correction.changes_made) = 2
  /\ ret.correction.changes_made[1][1] = <<"Added financial disclaimer">>
  /\ ret.correction.changes_made[2] = << <<"Added verification disclaimer">> >>
  /\ SubSeq(ret.correction.corrected_response,
            Len(ret.correction.corrected_response) - Len(VerificationNote) + 1,
            Len(ret.correction.corrected_response)) = VerificationNote

\* a compliance violation of a rule whose name holds 'financial' or 'SEC'
IsFinancialViolation(v) ==
  /\ v.type = "compliance"
  /\ \/ Contains(LowerText(v.rule_name), <<"financial">>)
     \/ Contains(LowerText(v.rule_name), <<"sec">>)
\* the words the disclaimer opens with
DisclaimerOpening == SubSeq(FinancialDisclaimer, 1, 8)
RecordsDisclaimer(changes_made) ==
  \E i \in 1..Len(changes_made) : \E j \in 1..Len(changes_made[i]) :
    changes_made[i][j] = <<"Added financial disclaimer">>

\* C29: for a compliance violation of a rule named financial or SEC, on a
\* response without disclaimer text, the corrected response has the financial
\* disclaimer appended and changes_made records it, whichever check of the
\* rule produced the violation and however its description is worded
C29_FinancialDisclaimerAdded ==
  /\ call # NoCall /\ call.fn = "suggest_correction" /\ call.llm # "answer"
  /\ Has(call.violations, IsFinancialViolation)
  /\ ~Contains(LowerText(call.original_response), <<"disclaimer">>)
  /\ ~Contains(LowerText(call.original_response), <<"risk">>)
  => /\ Contains(ret.correction.corrected_response, DisclaimerOpening)
     /\ RecordsDisclaimer(ret.correction.changes_made)

\* the policy violations a run over the response returns
ReturnedPolicyViolations(response) ==
  UNION {Range(StepPolicyViolations(response, pol)) : pol \in CorrectionPolicies}
RecordsChange(changes_made, change) ==
  \E i \in 1..Len(changes_made) : \E j \in 1..Len(changes_made[i]) :
    changes_made[i][j] = change

\* C30: a policy violation that detect_hallucinations returns, handed as it is
\* to suggest_correction, yields at least one change: a time promise is
\* adjusted, and where no specific fix applies the note naming the policy is
\* appended
C30_PolicyViolationYieldsChange ==
  /\ call # NoCall /\ call.fn = "suggest_correction" /\ call.llm # "answer"
  /\ Len(call.violations) = 1
  /\ call.violations[1] \in ReturnedPolicyViolations(call.original_response)
  => LET v == call.violations[1]
         changes_made == ret.correction.changes_made
     IN /\ changes_made # <<>>
        /\ Contains(v.description, <<"promise", "s">>)
             => RecordsChange(changes_made, <<"Adjusted time promise to match policy">>)
        /\ \/ RecordsChange(changes_made, <<"Adjusted time promise to match policy">>)
           \/ RecordsChange(changes_made, <<"Removed guarantee language">>)
           \/ \E i \in 1..Len(changes_made) :
                Contains(changes_made[i][1], <<"Aligned language with policy">>)
                \/ changes_made[i][1] = <<"Added compliance note for">> \o v.policy_name

====
